---- MODULE Spec2Model ----
(***************************************************************************)
(* A model of the goengine postgres event store: table-name generation,    *)
(* stream creation, existence checks, batch append and load.  The          *)
(* database is modelled by what the statements built in the source do to   *)
(* it: every statement sent through e.db runs in its own implicit          *)
(* transaction and is atomic.                                              *)
(***************************************************************************)
EXTENDS Integers, Sequences, FiniteSets, TLC

\* ------------------------------------------------------------------------
\* Bounds of the model
\* ------------------------------------------------------------------------
MaxNameLen == 4
MaxCreates == 2
MaxAppends == 2
MaxAppendsWhileCreating == 1
MaxLoadRows == 2
MaxConstraints == 2
MaxBatch == 2
MaxRuns == 2
MaxNotifications == 1
MaxFailures == 2
MaxProjected == 2
MaxRead == 3
MaxCalls == 4
UintBits == 8

\* ------------------------------------------------------------------------
\* Values
\* ------------------------------------------------------------------------
Nil == "nil"
Procs == {"p1", "p2"}

\* Error values.  Go compares errors by identity, so each error variable is
\* modelled by its name, not by its message text.
ErrEmptyStreamName == "ErrEmptyStreamName"
ErrTableAlreadyExists == "ErrTableAlreadyExists"
ErrTableNameEmpty == "ErrTableNameEmpty"
ErrNoCreateTableQueries == "ErrNoCreateTableQueries"

\* Errors reported by the database or the driver.
DBQueryFailed == "db: query failed"
DBBeginFailed == "db: begin failed"
DBCommitFailed == "db: commit failed"
DBStatementFailed == "db: statement failed"
DBDuplicateRelation == "db: relation already exists"
DBUndefinedTable == "db: relation does not exist"
DBUniqueViolation == "db: unique violation"
DBSyntaxError == "db: syntax error"
RollbackFailed == "error one: rollback failed; error two: "

\* ------------------------------------------------------------------------
\* SingleStreamStrategy.GenerateTableName
\* ------------------------------------------------------------------------
UpperChars == <<"A", "B", "C", "D", "E", "F", "G", "H", "I", "J", "K", "L", "M",
                "N", "O", "P", "Q", "R", "S", "T", "U", "V", "W", "X", "Y", "Z">>
LowerChars == <<"a", "b", "c", "d", "e", "f", "g", "h", "i", "j", "k", "l", "m",
                "n", "o", "p", "q", "r", "s", "t", "u", "v", "w", "x", "y", "z">>
DigitChars == {"0", "1", "2", "3", "4", "5", "6", "7", "8", "9"}

Range(s) == {s[i] : i \in DOMAIN s}

\* strings.ToLower on one character
ToLowerChar(c) ==
    IF \E i \in DOMAIN UpperChars : UpperChars[i] = c
    THEN LowerChars[CHOOSE i \in DOMAIN UpperChars : UpperChars[i] = c]
    ELSE c

\* strings.ToLower
ToLower(s) == [i \in DOMAIN s |-> ToLowerChar(s[i])]

\* the character class of the regular expression [^a-z0-9_]
NotAllowedChar(c) == c \notin (Range(LowerChars) \cup DigitChars \cup {"_"})

\* regNotAllowed.ReplaceAllString(name, ""): every run of characters that are
\* not allowed is replaced by nothing
RemoveNotAllowed(s) == SelectSeq(s, LAMBDA c : ~NotAllowedChar(c))

\* (faulty variant) only one underscore at the end is removed
RemoveOneLastUnderScore(s) ==
    IF s # <<>> /\ s[Len(s)] = "_" THEN SubSeq(s, 1, Len(s) - 1) ELSE s

\* regLastUnderScores.ReplaceAllString(name, ""): the run of underscores at
\* the end of the name, if any, is replaced by nothing
RECURSIVE RemoveLastUnderScores(_)
RemoveLastUnderScores(s) ==
    IF s # <<>> /\ s[Len(s)] = "_"
    THEN RemoveLastUnderScores(SubSeq(s, 1, Len(s) - 1))
    ELSE s

EventsPrefix == <<"e", "v", "e", "n", "t", "s", "_">>

GenerateTableName(streamName) ==
    IF Len(streamName) = 0
    THEN [name |-> <<>>, err |-> ErrEmptyStreamName]
    ELSE [name |-> EventsPrefix
                     \o RemoveLastUnderScores(RemoveNotAllowed(ToLower(streamName))),
          err |-> Nil]

\* EventStore.tableName
tableName(s) ==
    LET r == GenerateTableName(s)
    IN  IF r.err # Nil THEN [name |-> <<>>, err |-> r.err]
        ELSE IF Len(r.name) = 0 THEN [name |-> <<>>, err |-> ErrTableNameEmpty]
        ELSE [name |-> r.name, err |-> Nil]

\* ------------------------------------------------------------------------
\* Inputs
\* ------------------------------------------------------------------------
NameChars == {"a", "E", "_", "-", "1", "!"}

RECURSIVE SeqsUpTo(_, _)
SeqsUpTo(S, n) ==
    IF n = 0 THEN {<<>>}
    ELSE LET shorter == SeqsUpTo(S, n - 1)
         IN  shorter \cup {Append(s, x) : s \in {t \in shorter : Len(t) = n - 1}, x \in S}

\* the stream names handed to GenerateTableName on its own
AllNames == SeqsUpTo(NameChars, MaxNameLen)

\* the stream names used against the store: the empty name, two names of one
\* table and a name of another table
MainStream == <<"m">>
StreamNames == {<<>>, MainStream, <<"M", "!", "_">>, <<"t">>}
TableNames == {tableName(s).name : s \in {n \in StreamNames : tableName(n).err = Nil}}

\* ------------------------------------------------------------------------
\* State
\* ------------------------------------------------------------------------
VARIABLES
    nameIn,     \* the stream name last handed to GenerateTableName
    nameOut,    \* what GenerateTableName returned for it
    db,         \* the database: table name -> relation, indexes, rows, sequence
    cr,         \* per process: the Create call in progress
    hs,         \* per process: its HasStream call
    created,    \* the table names for which some Create has returned nil
    nCreates,   \* the number of Create calls started so far
    preparedInsertPlaceholder,  \* EventStore's cache: message count -> template
    ap,         \* per process: its AppendTo call, in progress or the last returned
    nAppends,   \* the number of AppendTo calls started so far
    nReturned,  \* the number of AppendTo calls that have returned so far
    ld,         \* the last Load call: its arguments, its query and its result
    mutex,      \* StreamProjector's sync.Mutex: the caller that holds it, or Nil
    projections,  \* the rows of the projection table
    pr,         \* per caller: its Run or RunAndListen call on the StreamProjector
    handlerLog, \* the `no` of every message a handler was invoked for, in order
    nRuns,      \* the number of Run and RunAndListen calls started so far
    nNotifications,  \* the number of notifications the listener has delivered
    nFailures,  \* the number of fold invocations that have failed so far
    rd,         \* the ReadEventStream call: its stream, its slices and its result
    account     \* the BankAccount of the example and the history of its calls

\* the variables of the projector
projectorVars == <<mutex, projections, pr, handlerLog, nRuns, nNotifications, nFailures>>

\* the variables of ReadEventStream and of the example aggregate
restVars == <<rd, account>>

vars ==
    <<nameIn, nameOut, db, cr, hs, created, nCreates, preparedInsertPlaceholder, ap, nAppends,
      nReturned, ld, projectorVars, restVars>>

\* ------------------------------------------------------------------------
\* The database
\* ------------------------------------------------------------------------
\* A table name that no CREATE TABLE has run for.  Of a relation: whether
\* the table and its two indexes exist, its rows in the order they were
\* stored, the last value of the sequence of `no`, and how many values of the
\* sequence were taken by statements that failed.
NoRelation ==
    [table |-> FALSE, uidx |-> FALSE, idx |-> FALSE, rows |-> <<>>, seq |-> 0, lost |-> 0]

EmptyDB == [t \in TableNames |-> NoRelation]

\* SingleStreamStrategy.CreateSchema: the three statements, in order
CreateSchema(t) ==
    << [kind |-> "CREATE TABLE", table |-> t],
       [kind |-> "CREATE UNIQUE INDEX", table |-> t],
       [kind |-> "CREATE INDEX", table |-> t] >>

\* What a statement of CreateSchema does when the database runs it: the new
\* database and the error.  CREATE TABLE creates the relation with its
\* BIGSERIAL sequence; each statement fails when its relation exists already.
ExecDDL(d, q) ==
    LET r == d[q.table]
    IN  CASE q.kind = "CREATE TABLE" ->
                IF r.table THEN [db |-> d, err |-> DBDuplicateRelation]
                ELSE [db |-> [d EXCEPT ![q.table] = [NoRelation EXCEPT !.table = TRUE]],
                      err |-> Nil]
          [] q.kind = "CREATE UNIQUE INDEX" ->
                IF ~r.table THEN [db |-> d, err |-> DBUndefinedTable]
                ELSE IF r.uidx THEN [db |-> d, err |-> DBDuplicateRelation]
                ELSE [db |-> [d EXCEPT ![q.table].uidx = TRUE], err |-> Nil]
          [] q.kind = "CREATE INDEX" ->
                IF ~r.table THEN [db |-> d, err |-> DBUndefinedTable]
                ELSE IF r.idx THEN [db |-> d, err |-> DBDuplicateRelation]
                ELSE [db |-> [d EXCEPT ![q.table].idx = TRUE], err |-> Nil]

\* (faulty variant) a failed query is reported as true
tableExistsTrueOnError(d, t, queryOk) ==
    IF ~queryOk THEN TRUE ELSE d[t].table

\* (faulty variant) the query looks in a schema the table is not in
tableExistsWrongSchema(d, t, queryOk) == FALSE

\* EventStore.tableExists: the information_schema query and its Scan.  queryOk
\* is whether the query and the scan succeeded; an error is logged and
\* reported as false.
tableExists(d, t, queryOk) ==
    IF ~queryOk THEN FALSE ELSE d[t].table

\* ------------------------------------------------------------------------
\* EventStore.Create
\* ------------------------------------------------------------------------
\* A process that is not in Create.  Of a call the record keeps the stream
\* name, the table name, the tables some Create had returned nil for when the
\* call began, whether its existence query succeeded, how many statements
\* it has sent and how many of them succeeded, the error of the statement
\* that failed and what the call returns.
IdleCreate ==
    [pc |-> "idle", stream |-> <<>>, tbl |-> <<>>, after |-> {}, queryOk |-> TRUE,
     issued |-> 0, applied |-> 0, stmtErr |-> Nil, res |-> Nil]

Idle(p) ==
    cr[p].pc = "idle" /\ hs[p].pc = "idle" /\ ap[p].pc = "idle" /\ pr[p].pc = "idle"

\* Create is called: the table name is resolved (lines 81-84)
CreateCall(p, s) ==
    /\ Idle(p)
    /\ nCreates < MaxCreates
    /\ nCreates' = nCreates + 1
    /\ LET tn == tableName(s)
       IN  cr' = [cr EXCEPT ![p] =
                    [IdleCreate EXCEPT !.stream = s, !.tbl = tn.name, !.after = created,
                                       !.pc = IF tn.err # Nil THEN "done" ELSE "exists",
                                       !.res = tn.err]]
    /\ UNCHANGED restVars
    /\ UNCHANGED projectorVars
    /\ UNCHANGED <<nameIn, nameOut, db, hs, created, preparedInsertPlaceholder, ap, nAppends,
                   nReturned, ld>>

\* the existence check and the schema of the strategy (lines 86-93)
CreateTableExists(p, queryOk) ==
    /\ cr[p].pc = "exists"
    /\ LET c == cr[p]
           queries == CreateSchema(c.tbl)
       IN  cr' = [cr EXCEPT ![p] =
                    IF tableExists(db, c.tbl, queryOk)
                    THEN [c EXCEPT !.pc = "done", !.queryOk = queryOk,
                                   !.res = ErrTableAlreadyExists]
                    ELSE IF Len(queries) = 0
                    THEN [c EXCEPT !.pc = "done", !.queryOk = queryOk,
                                   !.res = ErrNoCreateTableQueries]
                    ELSE [c EXCEPT !.pc = "begin", !.queryOk = queryOk]]
    /\ UNCHANGED restVars
    /\ UNCHANGED projectorVars
    /\ UNCHANGED <<nameIn, nameOut, db, hs, created, nCreates, preparedInsertPlaceholder, ap,
                   nAppends, nReturned, ld>>

\* e.db.BeginTx (lines 95-98)
CreateBeginTx(p, ok) ==
    /\ cr[p].pc = "begin"
    /\ cr' = [cr EXCEPT ![p] =
                IF ok THEN [@ EXCEPT !.pc = "ddl"]
                ELSE [@ EXCEPT !.pc = "done", !.res = DBBeginFailed]]
    /\ UNCHANGED restVars
    /\ UNCHANGED projectorVars
    /\ UNCHANGED <<nameIn, nameOut, db, hs, created, nCreates, preparedInsertPlaceholder, ap,
                   nAppends, nReturned, ld>>

\* What running a statement through e.db (not through tx) does: it runs in
\* its own implicit transaction and is committed when it returns.  envOk is
\* whether the statement reached the database and was not cancelled.
DBExecContext(d, q, envOk) ==
    IF envOk THEN ExecDDL(d, q) ELSE [db |-> d, err |-> DBStatementFailed]

\* tx.Rollback of the transaction Create began: the transaction has run no
\* statement, so there is nothing to undo.
TxRollback(d) == d

\* One turn of the loop over the queries (lines 99-109): the next statement
\* is executed; on an error the transaction is rolled back and Create returns.
CreateExecQuery(p, envOk, rollbackOk) ==
    /\ cr[p].pc = "ddl"
    /\ LET c == cr[p]
           queries == CreateSchema(c.tbl)
           q == queries[c.applied + 1]
           r == DBExecContext(db, q, envOk)
       IN  IF r.err = Nil
           THEN /\ db' = r.db
                /\ cr' = [cr EXCEPT ![p] =
                            [c EXCEPT !.issued = @ + 1, !.applied = @ + 1,
                                      !.pc = IF c.applied + 1 = Len(queries)
                                             THEN "commit" ELSE "ddl"]]
           ELSE /\ db' = TxRollback(r.db)
                /\ cr' = [cr EXCEPT ![p] =
                            [c EXCEPT !.issued = @ + 1, !.pc = "done", !.stmtErr = r.err,
                                      !.res = IF rollbackOk THEN r.err
                                              ELSE RollbackFailed \o r.err]]
    /\ UNCHANGED restVars
    /\ UNCHANGED projectorVars
    /\ UNCHANGED <<nameIn, nameOut, hs, created, nCreates, preparedInsertPlaceholder, ap,
                   nAppends, nReturned, ld>>

\* tx.Commit (lines 110-115)
CreateCommit(p, ok) ==
    /\ cr[p].pc = "commit"
    /\ cr' = [cr EXCEPT ![p] =
                [@ EXCEPT !.pc = "done", !.res = IF ok THEN Nil ELSE DBCommitFailed]]
    /\ UNCHANGED restVars
    /\ UNCHANGED projectorVars
    /\ UNCHANGED <<nameIn, nameOut, db, hs, created, nCreates, preparedInsertPlaceholder, ap,
                   nAppends, nReturned, ld>>

\* Create has returned to its caller
CreateReturn(p) ==
    /\ cr[p].pc = "done"
    /\ created' = IF cr[p].res = Nil THEN created \cup {cr[p].tbl} ELSE created
    /\ cr' = [cr EXCEPT ![p] = IdleCreate]
    /\ UNCHANGED restVars
    /\ UNCHANGED projectorVars
    /\ UNCHANGED <<nameIn, nameOut, db, hs, nCreates, preparedInsertPlaceholder, ap, nAppends,
                   nReturned, ld>>

\* ------------------------------------------------------------------------
\* EventStore.HasStream
\* ------------------------------------------------------------------------
HasStreamResult(d, s, queryOk) ==
    LET tn == tableName(s)
    IN  IF tn.err # Nil THEN FALSE ELSE tableExists(d, tn.name, queryOk)

IdleHasStream == [pc |-> "idle", stream |-> <<>>, queryOk |-> TRUE, res |-> FALSE]

\* HasStream is called and runs its query (lines 120-125)
HasStream(p, s, queryOk) ==
    /\ Idle(p)
    /\ hs' = [hs EXCEPT ![p] =
                [pc |-> "done", stream |-> s, queryOk |-> queryOk,
                 res |-> HasStreamResult(db, s, queryOk)]]
    /\ UNCHANGED restVars
    /\ UNCHANGED projectorVars
    /\ UNCHANGED <<nameIn, nameOut, db, cr, created, nCreates, preparedInsertPlaceholder, ap,
                   nAppends, nReturned, ld>>

\* HasStream has returned to its caller
HasStreamReturn(p) ==
    /\ hs[p].pc = "done"
    /\ hs' = [hs EXCEPT ![p] = IdleHasStream]
    /\ UNCHANGED restVars
    /\ UNCHANGED projectorVars
    /\ UNCHANGED <<nameIn, nameOut, db, cr, created, nCreates, preparedInsertPlaceholder, ap,
                   nAppends, nReturned, ld>>

\* ------------------------------------------------------------------------
\* Messages and SingleStreamStrategy.PrepareData
\* ------------------------------------------------------------------------
\* SingleStreamStrategy.ColumnNames
ColumnNames == <<"event_id", "event_name", "payload", "metadata", "created_at">>

AggregateKeys == {"_aggregate_type", "_aggregate_id", "_aggregate_version"}

\* the metadata of version v of the one aggregate of the model
AggregateMetadata(v) ==
    [k \in AggregateKeys |->
        CASE k = "_aggregate_type" -> "account"
          [] k = "_aggregate_id" -> "6ba7b810"
          [] k = "_aggregate_version" -> v]

ErrConvertPayload == "converter: payload type is not registered"

Message(u, v, payload) ==
    [uuid |-> u, payload |-> payload, metadata |-> AggregateMetadata(v), createdAt |-> 0]

\* the messages the writers append: two of them carry the same aggregate
\* version under different uuids, two the same uuid under different versions,
\* and two have nothing in common
Messages == {Message(1, 1, "Deposited"), Message(2, 1, "Deposited"), Message(1, 2, "Deposited")}

\* the batches: every sequence of messages up to the length MaxBatch, and one
\* batch whose second payload the converter rejects
Batches ==
    SeqsUpTo(Messages, MaxBatch)
    \cup {<<Message(2, 1, "Deposited"), Message(1, 2, "Unregistered")>>}

\* PrepareData: the flat parameter vector, five values per message in the
\* order of ColumnNames; the first payload the converter rejects ends it.
RECURSIVE PrepareData(_)
PrepareData(messages) ==
    IF messages = <<>> THEN [data |-> <<>>, err |-> Nil]
    ELSE LET msg == Head(messages)
             convErr == IF msg.payload = "Unregistered" THEN ErrConvertPayload ELSE Nil
             rest == PrepareData(Tail(messages))
         IN  IF convErr # Nil THEN [data |-> <<>>, err |-> convErr]
             ELSE IF rest.err # Nil THEN rest
             ELSE [data |-> <<msg.uuid, msg.payload, msg.payload, msg.metadata, msg.createdAt>>
                             \o rest.data,
                   err |-> Nil]

\* ------------------------------------------------------------------------
\* EventStore.prepareInsertValues
\* ------------------------------------------------------------------------
\* (faulty variant) the rows of placeholders are numbered from the last row down
BuildPlaceholdersReversed(messageCount, lenCols) ==
    [r \in 1..messageCount |->
        [c \in 1..lenCols |-> (messageCount - r) * lenCols + (c - 1) + 1]]

\* The template "($1,...,$5),($6,...)" as the rows of placeholder numbers it
\* spells: the loop runs i over 0..placeholderCount-1, opens a row when
\* i % lenCols = 0 and writes the placeholder i+1.
BuildPlaceholders(messageCount, lenCols) ==
    [r \in 1..messageCount |-> [c \in 1..lenCols |-> (r - 1) * lenCols + (c - 1) + 1]]

\* The values string and the cache after the call.  An empty batch gives the
\* empty string; a cached template is returned as it is; otherwise the
\* template is built and stored.
prepareInsertValues(cache, streamEvents, lenCols) ==
    LET messageCount == Len(streamEvents)
    IN  IF messageCount = 0 THEN [values |-> <<>>, cache |-> cache]
        ELSE IF messageCount \in DOMAIN cache
        THEN [values |-> cache[messageCount], cache |-> cache]
        ELSE LET built == BuildPlaceholders(messageCount, lenCols)
             IN  [values |-> built,
                  cache |-> [n \in DOMAIN cache \cup {messageCount} |->
                                IF n = messageCount THEN built ELSE cache[n]]]

\* ------------------------------------------------------------------------
\* The INSERT statement against the schema of CreateSchema
\* ------------------------------------------------------------------------
DBCheckViolation == "db: check constraint violation"
DBBindError == "db: wrong number of parameters"

\* metadata ->> key: the value as text, or NULL (the empty set) without the key
JsonGetText(meta, key) == IF key \in DOMAIN meta THEN {meta[key]} ELSE {}

\* CONSTRAINT aggregate_*_not_null CHECK ((metadata->>'...') IS NOT NULL)
AggregateNotNull(row) == \A k \in AggregateKeys : JsonGetText(row.metadata, k) # {}

\* UNIQUE (event_id)
EventIdConflict(a, b) == a.event_id = b.event_id

\* (faulty variant) the unique index on the aggregate expressions is missing
NoAggregateVersionConflict(a, b) == FALSE

\* the unique index on the three aggregate expressions of the metadata
AggregateVersionConflict(a, b) ==
    \A k \in AggregateKeys :
        /\ JsonGetText(a.metadata, k) # {}
        /\ JsonGetText(a.metadata, k) = JsonGetText(b.metadata, k)

\* the error of storing row next to the rows stored, Nil when there is none
RowViolation(rel, row) ==
    IF ~AggregateNotNull(row) THEN DBCheckViolation
    ELSE IF \E i \in DOMAIN rel.rows : EventIdConflict(rel.rows[i], row)
    THEN DBUniqueViolation
    ELSE IF rel.uidx /\ \E i \in DOMAIN rel.rows : AggregateVersionConflict(rel.rows[i], row)
    THEN DBUniqueViolation
    ELSE Nil

\* (faulty variant) `no` is numbered by the count of the rows stored
NextValByCount(rel) == Len(rel.rows) + 1

\* no BIGSERIAL: the default of the column is the next value of the sequence.
\* A value taken is never given back, whatever becomes of the statement.
NextVal(rel) == rel.seq + 1

\* The rows of one statement are stored one after the other, each taking its
\* `no` from the sequence before it is checked against the rows stored so
\* far, those of this statement included; the first violation ends it.
RECURSIVE InsertRows(_, _)
InsertRows(rel, newRows) ==
    IF newRows = <<>> THEN [rel |-> rel, err |-> Nil]
    ELSE LET no == NextVal(rel)
             row == [c \in DOMAIN Head(newRows) \cup {"no"} |->
                        IF c = "no" THEN no ELSE Head(newRows)[c]]
             violation == RowViolation(rel, row)
         IN  IF violation # Nil
             THEN [rel |-> [rel EXCEPT !.seq = no], err |-> violation]
             ELSE InsertRows([rel EXCEPT !.seq = no, !.rows = Append(@, row)], Tail(newRows))

\* (faulty variant) the rows stored before the violation stay
DBInsertNotAtomic(d, t, columns, values, data) ==
    IF values = <<>> THEN [db |-> d, err |-> DBSyntaxError]
    ELSE IF ~d[t].table THEN [db |-> d, err |-> DBUndefinedTable]
    ELSE LET newRows == [r \in DOMAIN values |->
                            [c \in Range(columns) |->
                                data[values[r][CHOOSE j \in DOMAIN columns : columns[j] = c]]]]
             done == InsertRows(d[t], newRows)
         IN  [db |-> [d EXCEPT ![t] = done.rel], err |-> done.err]

\* INSERT INTO t (columns) VALUES values, with the parameters data.  The
\* statement is atomic: on an error no row of it stays, but the sequence
\* values it took are gone.
DBInsert(d, t, columns, values, data) ==
    IF values = <<>> THEN [db |-> d, err |-> DBSyntaxError]
    ELSE IF ~d[t].table THEN [db |-> d, err |-> DBUndefinedTable]
    ELSE IF \/ Len(values) * Len(columns) # Len(data)
            \/ \E r \in DOMAIN values :
                  Len(values[r]) # Len(columns) \/ \E c \in DOMAIN values[r] : values[r][c] > Len(data)
    THEN [db |-> d, err |-> DBBindError]
    ELSE LET newRows == [r \in DOMAIN values |->
                            [c \in Range(columns) |->
                                data[values[r][CHOOSE j \in DOMAIN columns : columns[j] = c]]]]
             done == InsertRows(d[t], newRows)
         IN  IF done.err # Nil
             THEN [db |-> [d EXCEPT ![t].seq = done.rel.seq,
                                    ![t].lost = @ + (done.rel.seq - d[t].seq)],
                   err |-> done.err]
             ELSE [db |-> [d EXCEPT ![t] = done.rel], err |-> Nil]

\* ------------------------------------------------------------------------
\* EventStore.AppendTo
\* ------------------------------------------------------------------------
\* A process that has not called AppendTo yet.  Of a call the record keeps
\* what it was given and, once it has returned (pc = "done"): what it
\* returned, whether it sent a statement to the database, the `no` of the
\* rows it stored, the `no` of the stored rows its batch collided with, and
\* the number of calls that had returned when it began and when it returned.
IdleAppend ==
    [pc |-> "idle", stream |-> <<>>, tbl |-> <<>>, batch |-> <<>>, data |-> <<>>,
     values |-> <<>>, res |-> Nil, sent |-> FALSE, nos |-> <<>>, hit |-> {},
     start |-> 0, end |-> 0]

\* the stored rows of rel that a message of the batch collides with
Collisions(rel, batch) ==
    {rel.rows[i].no : i \in {j \in DOMAIN rel.rows :
        \E k \in DOMAIN batch :
            \/ rel.rows[j].event_id = batch[k].uuid
            \/ \A key \in AggregateKeys :
                  JsonGetText(rel.rows[j].metadata, key) = JsonGetText(batch[k].metadata, key)}}

\* AppendTo is called: table name, PrepareData and prepareInsertValues
\* (lines 170-181); an error of the first two returns at once.  The accesses
\* of prepareInsertValues to the cache are one step here; AppendToPrepare
\* and the steps after it take them one by one.
AppendToCall(p, s, batch, limit) ==
    /\ Idle(p)
    /\ nAppends < limit
    /\ nAppends' = nAppends + 1
    /\ LET tn == tableName(s)
           pd == PrepareData(batch)
           pv == prepareInsertValues(preparedInsertPlaceholder, batch, Len(ColumnNames))
           call == [IdleAppend EXCEPT !.stream = s, !.tbl = tn.name, !.batch = batch,
                                      !.start = nReturned]
       IN  IF tn.err # Nil \/ pd.err # Nil
           THEN /\ ap' = [ap EXCEPT ![p] =
                            [call EXCEPT !.pc = "done", !.end = nReturned + 1,
                                         !.res = IF tn.err # Nil THEN tn.err ELSE pd.err]]
                /\ nReturned' = nReturned + 1
                /\ UNCHANGED preparedInsertPlaceholder
           ELSE /\ ap' = [ap EXCEPT ![p] =
                            [call EXCEPT !.pc = "exec", !.data = pd.data, !.values = pv.values]]
                /\ preparedInsertPlaceholder' = pv.cache
                /\ UNCHANGED nReturned
    /\ UNCHANGED restVars
    /\ UNCHANGED projectorVars
    /\ UNCHANGED <<nameIn, nameOut, db, cr, hs, created, nCreates, ld>>

\* ------------------------------------------------------------------------
\* prepareInsertValues step by step: the accesses to the cache
\* ------------------------------------------------------------------------
\* e.preparedInsertPlaceholder is a Go map that every AppendTo call on the
\* EventStore reads (lines 222, 246) and writes (line 244) with no lock
\* around it.  A call is at pc "lookup", "store" or "reread" while it is at
\* the access of that line; two calls of which one is at "store" access the
\* map without any order between them.  What such an access does is not
\* defined: the runtime may end the program with "fatal error: concurrent
\* map read and map write" / "concurrent map writes", a read may find the
\* key or not and return any template or none, a write may be lost.
ErrConcurrentMap == "fatal error: concurrent map access"

WritesCache(p) == ap[p].pc = "store"
ReadsCache(p) == ap[p].pc \in {"lookup", "reread"}
RacesWithWrite(p) == \E q \in Procs \ {p} : WritesCache(q)
RacesWithAccess(p) == \E q \in Procs \ {p} : WritesCache(q) \/ ReadsCache(q)
NoFatal == \A p \in Procs : ap[p].pc # "fatal"

\* what a read that races with a write may return for a key it finds
TornTemplates == {<<>>} \cup {BuildPlaceholders(n, Len(ColumnNames)) : n \in 1..MaxBatch}

\* the program has ended in the access of p
Fatal(p) == [ap EXCEPT ![p] = [@ EXCEPT !.pc = "fatal", !.res = ErrConcurrentMap]]

\* AppendTo is called: table name and PrepareData (lines 170-178), then
\* prepareInsertValues up to the lookup of line 222; an empty batch returns
\* the empty string before it (lines 219-221)
AppendToPrepare(p, s, batch, limit) ==
    /\ NoFatal
    /\ Idle(p)
    /\ nAppends < limit
    /\ nAppends' = nAppends + 1
    /\ LET tn == tableName(s)
           pd == PrepareData(batch)
           call == [IdleAppend EXCEPT !.stream = s, !.tbl = tn.name, !.batch = batch,
                                      !.start = nReturned]
       IN  IF tn.err # Nil \/ pd.err # Nil
           THEN /\ ap' = [ap EXCEPT ![p] =
                            [call EXCEPT !.pc = "done", !.end = nReturned + 1,
                                         !.res = IF tn.err # Nil THEN tn.err ELSE pd.err]]
                /\ nReturned' = nReturned + 1
           ELSE /\ ap' = [ap EXCEPT ![p] =
                            [call EXCEPT !.pc = IF batch = <<>> THEN "exec" ELSE "lookup",
                                         !.data = pd.data]]
                /\ UNCHANGED nReturned
    /\ UNCHANGED preparedInsertPlaceholder
    /\ UNCHANGED restVars
    /\ UNCHANGED projectorVars
    /\ UNCHANGED <<nameIn, nameOut, db, cr, hs, created, nCreates, ld>>

\* `values, ok := e.preparedInsertPlaceholder[messageCount]` (line 222): a
\* hit returns the template, a miss goes on to build it.  found, torn and
\* fatal choose the outcome of a read that races with a write.
CacheLookup(p, found, torn, fatal) ==
    /\ NoFatal
    /\ ap[p].pc = "lookup"
    /\ LET messageCount == Len(ap[p].batch)
           cache == preparedInsertPlaceholder
       IN  IF RacesWithWrite(p)
           THEN ap' = IF fatal THEN Fatal(p)
                      ELSE IF found THEN [ap EXCEPT ![p] = [@ EXCEPT !.pc = "exec", !.values = torn]]
                      ELSE [ap EXCEPT ![p].pc = "store"]
           ELSE ap' = IF messageCount \in DOMAIN cache
                      THEN [ap EXCEPT ![p] = [@ EXCEPT !.pc = "exec",
                                                       !.values = cache[messageCount]]]
                      ELSE [ap EXCEPT ![p].pc = "store"]
    /\ UNCHANGED restVars
    /\ UNCHANGED projectorVars
    /\ UNCHANGED <<nameIn, nameOut, db, cr, hs, created, nCreates, preparedInsertPlaceholder,
                   nAppends, nReturned, ld>>

\* the template is built (lines 226-243) and stored:
\* `e.preparedInsertPlaceholder[messageCount] = placeholders.String()`
\* (line 244).  lost and fatal choose the outcome of a write that races
\* with another access.
CacheStore(p, lost, fatal) ==
    /\ NoFatal
    /\ ap[p].pc = "store"
    /\ LET messageCount == Len(ap[p].batch)
           cache == preparedInsertPlaceholder
           built == BuildPlaceholders(messageCount, Len(ColumnNames))
           stored == [n \in DOMAIN cache \cup {messageCount} |->
                        IF n = messageCount THEN built ELSE cache[n]]
       IN  IF RacesWithAccess(p) /\ fatal
           THEN /\ ap' = Fatal(p)
                /\ UNCHANGED preparedInsertPlaceholder
           ELSE /\ ap' = [ap EXCEPT ![p].pc = "reread"]
                /\ preparedInsertPlaceholder' =
                      IF RacesWithAccess(p) /\ lost THEN cache ELSE stored
    /\ UNCHANGED restVars
    /\ UNCHANGED projectorVars
    /\ UNCHANGED <<nameIn, nameOut, db, cr, hs, created, nCreates, nAppends, nReturned, ld>>

\* `return e.preparedInsertPlaceholder[messageCount]` (line 246): the
\* template stored under the key, the empty string without the key.  torn
\* and fatal choose the outcome of a read that races with a write.
CacheReread(p, torn, fatal) ==
    /\ NoFatal
    /\ ap[p].pc = "reread"
    /\ LET messageCount == Len(ap[p].batch)
           cache == preparedInsertPlaceholder
           stored == IF messageCount \in DOMAIN cache THEN cache[messageCount] ELSE <<>>
       IN  ap' = IF RacesWithWrite(p) /\ fatal THEN Fatal(p)
                 ELSE [ap EXCEPT ![p] =
                         [@ EXCEPT !.pc = "exec",
                                   !.values = IF RacesWithWrite(p) THEN torn ELSE stored]]
    /\ UNCHANGED restVars
    /\ UNCHANGED projectorVars
    /\ UNCHANGED <<nameIn, nameOut, db, cr, hs, created, nCreates, preparedInsertPlaceholder,
                   nAppends, nReturned, ld>>

\* e.db.ExecContext with the INSERT statement, and the return (lines 183-214)
AppendToExec(p) ==
    /\ ap[p].pc = "exec"
    /\ LET a == ap[p]
           r == DBInsert(db, a.tbl, ColumnNames, a.values, a.data)
           before == db[a.tbl].rows
           after == r.db[a.tbl].rows
       IN  /\ db' = r.db
           /\ ap' = [ap EXCEPT ![p] =
                        [a EXCEPT !.pc = "done", !.res = r.err, !.sent = TRUE,
                                  !.end = nReturned + 1,
                                  !.nos = [i \in 1..(Len(after) - Len(before)) |->
                                              after[Len(before) + i].no],
                                  !.hit = Collisions(db[a.tbl], a.batch)]]
    /\ nReturned' = nReturned + 1
    /\ UNCHANGED restVars
    /\ UNCHANGED projectorVars
    /\ UNCHANGED <<nameIn, nameOut, cr, hs, created, nCreates, preparedInsertPlaceholder,
                   nAppends, ld>>

\* AppendTo has returned to its caller
AppendToReturn(p) ==
    /\ ap[p].pc = "done"
    /\ ap' = [ap EXCEPT ![p] = IdleAppend]
    /\ UNCHANGED restVars
    /\ UNCHANGED projectorVars
    /\ UNCHANGED <<nameIn, nameOut, db, cr, hs, created, nCreates, preparedInsertPlaceholder,
                   nAppends, nReturned, ld>>

\* ------------------------------------------------------------------------
\* EventStore.Load
\* ------------------------------------------------------------------------
\* A matcher is nil or a sequence of constraints {field, operator, value}.
\* The values of the metadata and of the constraints are numbers that stand
\* for texts in the order of their collation.
NilMatcher == [isNil |-> TRUE, constraints |-> <<>>]
Matcher(cs) == [isNil |-> FALSE, constraints |-> cs]

\* the constraints of the model: both fields, every operator
Constraint(field, operator, value) == [field |-> field, operator |-> operator, value |-> value]

Constraints ==
    {Constraint("region", "=", 1), Constraint("region", "!=", 1),
     Constraint("region", "<", 2), Constraint("region", ">=", 2),
     Constraint("_aggregate_version", ">", 1), Constraint("_aggregate_version", "<=", 1)}

Matchers == {NilMatcher} \cup {Matcher(cs) : cs \in SeqsUpTo(Constraints, MaxConstraints)}

\* the regions of the messages; region 0 stands for a message without one
Regions == {1, 2}

\* the message number i of a stream, of region r
RegionMessage(i, r) ==
    [uuid |-> i, payload |-> "Deposited", createdAt |-> 0,
     metadata |-> [k \in AggregateKeys \cup (IF r = 0 THEN {} ELSE {"region"}) |->
                     IF k = "region" THEN r ELSE AggregateMetadata(i)[k]]]

\* count is a pointer: nil, or the limit
NoCount == [isNil |-> TRUE, n |-> 0]
Count(n) == [isNil |-> FALSE, n |-> n]

\* (faulty variant) the counter of the placeholders is not advanced
matchConditionsOnePlaceholder(matcher) ==
    IF matcher.isNil THEN [conditions |-> <<>>, params |-> <<>>]
    ELSE [conditions |-> [i \in DOMAIN matcher.constraints |->
                            [left |-> "metadata ->>", field |-> matcher.constraints[i].field,
                             operator |-> matcher.constraints[i].operator, placeholder |-> 1]],
          params |-> [i \in DOMAIN matcher.constraints |-> matcher.constraints[i].value]]

\* matchConditions: one condition "metadata ->> field operator $i" and one
\* parameter per constraint, in the order of the iteration
matchConditions(matcher) ==
    IF matcher.isNil THEN [conditions |-> <<>>, params |-> <<>>]
    ELSE [conditions |-> [i \in DOMAIN matcher.constraints |->
                            [left |-> "metadata ->>", field |-> matcher.constraints[i].field,
                             operator |-> matcher.constraints[i].operator, placeholder |-> i]],
          params |-> [i \in DOMAIN matcher.constraints |-> matcher.constraints[i].value]]

\* (faulty variant) the condition on `no` is left out
LoadQueryFromStart(tbl, fromNumber, count, matcher) ==
    LET mc == matchConditions(matcher)
    IN  [table |-> tbl, conditions |-> mc.conditions, params |-> mc.params, limit |-> count]

\* the statement of Load (lines 141-149): the conditions of the matcher, then
\* "no >= $n" with fromNumber as the last parameter, and the limit
LoadQuery(tbl, fromNumber, count, matcher) ==
    LET mc == matchConditions(matcher)
        params == Append(mc.params, fromNumber)
        conditions == Append(mc.conditions,
                             [left |-> "column", field |-> "no", operator |-> ">=",
                              placeholder |-> Len(params)])
    IN  [table |-> tbl, conditions |-> conditions, params |-> params, limit |-> count]

\* a comparison of the database; a NULL on the left (the empty set) makes it
\* not true
Compare(left, operator, right) ==
    /\ left # {}
    /\ \E v \in left :
          CASE operator = "=" -> v = right
            [] operator = "!=" -> v # right
            [] operator = "<" -> v < right
            [] operator = "<=" -> v <= right
            [] operator = ">" -> v > right
            [] operator = ">=" -> v >= right

ConditionHolds(row, cond, params) ==
    Compare(IF cond.left = "column" THEN {row[cond.field]}
            ELSE JsonGetText(row.metadata, cond.field),
            cond.operator, params[cond.placeholder])

\* (faulty variant) ORDER BY no DESC
RECURSIVE OrderByNoDescending(_)
OrderByNoDescending(rowSet) ==
    IF rowSet = {} THEN <<>>
    ELSE LET first == CHOOSE r \in rowSet : \A o \in rowSet : r.no >= o.no
         IN  <<first>> \o OrderByNoDescending(rowSet \ {first})

\* ORDER BY no
RECURSIVE OrderByNo(_)
OrderByNo(rowSet) ==
    IF rowSet = {} THEN <<>>
    ELSE LET first == CHOOSE r \in rowSet : \A o \in rowSet : r.no <= o.no
         IN  <<first>> \o OrderByNo(rowSet \ {first})

\* SELECT * FROM table WHERE conditions ORDER BY no LIMIT limit
DBQuery(d, q) ==
    IF ~d[q.table].table THEN [rows |-> <<>>, err |-> DBUndefinedTable]
    ELSE LET rel == d[q.table]
             hits == {rel.rows[i] : i \in {j \in DOMAIN rel.rows :
                        \A c \in DOMAIN q.conditions :
                            ConditionHolds(rel.rows[j], q.conditions[c], q.params)}}
             ordered == OrderByNo(hits)
         IN  [rows |-> IF q.limit.isNil \/ q.limit.n >= Len(ordered) THEN ordered
                       ELSE SubSeq(ordered, 1, q.limit.n),
              err |-> Nil]

\* no Load call yet.  Of a call: its arguments, the statement it sent, the
\* rows of the table when the statement ran, and the rows and the error it
\* returned.
NoLoad ==
    [calls |-> 0, stream |-> <<>>, fromNumber |-> 0, count |-> NoCount,
     matcher |-> NilMatcher, query |-> <<>>, seen |-> <<>>, rows |-> <<>>, err |-> Nil]

\* Load is one query: the call and its return are one step (lines 136-165)
Load(p, s, fromNumber, count, matcher) ==
    /\ Idle(p)
    /\ LET tn == tableName(s)
           q == LoadQuery(tn.name, fromNumber, count, matcher)
           r == DBQuery(db, q)
           call == [NoLoad EXCEPT !.calls = 1, !.stream = s, !.fromNumber = fromNumber,
                                  !.count = count, !.matcher = matcher]
       IN  ld' = IF tn.err # Nil THEN [call EXCEPT !.err = tn.err]
                 ELSE [call EXCEPT !.query = <<q>>, !.seen = db[tn.name].rows,
                                   !.rows = r.rows, !.err = r.err]
    /\ UNCHANGED restVars
    /\ UNCHANGED projectorVars
    /\ UNCHANGED <<nameIn, nameOut, db, cr, hs, created, nCreates, preparedInsertPlaceholder,
                   ap, nAppends, nReturned>>

\* ------------------------------------------------------------------------
\* GenerateTableName on its own
\* ------------------------------------------------------------------------
\* GenerateTableName has not been called yet
NotCalled == [name |-> <<>>, err |-> "not called"]

CallGenerateTableName ==
    /\ nameOut = NotCalled
    /\ nameOut' = GenerateTableName(nameIn)
    /\ UNCHANGED nameIn
    /\ UNCHANGED restVars
    /\ UNCHANGED projectorVars
    /\ UNCHANGED <<db, cr, hs, created, nCreates, preparedInsertPlaceholder, ap, nAppends,
                   nReturned, ld>>

\* ------------------------------------------------------------------------
\* The projection table and its storage
\* ------------------------------------------------------------------------
\* projection.Name() and projection.FromStream() of the one projection
ProjectionName == "balance"
FromStream == MainStream

\* the row a projection is created with: position 0, no state
NewProjection(name) == [name |-> name, position |-> 0, state |-> <<>>]

HasProjection(rows, name) == \E i \in DOMAIN rows : rows[i].name = name

\* SELECT 1 FROM projectionTable WHERE name = $1 LIMIT 1; a failed query
\* is reported as false (lines 195-234)
projectionExists(rows, name, queryOk) == queryOk /\ HasProjection(rows, name)

\* (faulty variant) the INSERT adds a row whether or not the name has one
InsertAlways(rows, name) == Append(rows, NewProjection(name))

\* (faulty variant) on a conflict the INSERT overwrites the row with a new one
InsertOrReset(rows, name) ==
    IF HasProjection(rows, name)
    THEN [i \in DOMAIN rows |-> IF rows[i].name = name THEN NewProjection(name) ELSE rows[i]]
    ELSE Append(rows, NewProjection(name))

\* INSERT INTO projectionTable (name) VALUES ($1) ON CONFLICT DO NOTHING
\* (lines 236-251); name is the primary key of the projection table
InsertOnConflictDoNothing(rows, name) ==
    IF HasProjection(rows, name) THEN rows ELSE Append(rows, NewProjection(name))

\* SELECT position, state FROM projectionTable WHERE name = $1 FOR UPDATE
AcquireProjection(rows, name) ==
    LET hits == {i \in DOMAIN rows : rows[i].name = name}
    IN  IF hits = {} THEN [found |-> FALSE, position |-> 0, state |-> <<>>]
        ELSE LET row == rows[CHOOSE i \in hits : \A j \in hits : i <= j]
             IN  [found |-> TRUE, position |-> row.position, state |-> row.state]

\* UPDATE projectionTable SET position = $1, state = $2 WHERE name = $3
PersistProjection(rows, name, position, state) ==
    [i \in DOMAIN rows |->
        IF rows[i].name = name THEN [rows[i] EXCEPT !.position = position, !.state = state]
        ELSE rows[i]]

\* the persisted position and state of the projection in rows
NoProgress == [position |-> 0, state |-> <<>>]
PersistedIn(rows) ==
    LET a == AcquireProjection(rows, ProjectionName)
    IN  [position |-> a.position, state |-> a.state]
Persisted == PersistedIn(projections)

\* ------------------------------------------------------------------------
\* StreamProjector: Run, RunAndListen, processNotification
\* ------------------------------------------------------------------------
\* math.MaxInt16, the bound of the loop of processNotification
MaxInt16 == 32767

\* the answers of a ProjectionErrorCallback; the last one stands for every
\* value that is none of the four
ProjectionRetry == "Retry"
ProjectionIgnore == "Ignore"
ProjectionFail == "Fail"
ProjectionFallthrough == "Fallthrough"
ProjectionOther == "Other"
ErrorAnswers ==
    {ProjectionRetry, ProjectionIgnore, ProjectionFail, ProjectionFallthrough, ProjectionOther}

\* the actions processNotification switches on (lines 155-161)
errorRetry == "errorRetry"
errorIgnore == "errorIgnore"
errorFail == "errorFail"
errorFallthrough == "errorFallthrough"

\* resolveErrorAction: the answer of the callback as an action; an answer
\* that is none of the four is treated as Fail
resolveErrorAction(answer) ==
    CASE answer = ProjectionRetry -> errorRetry
      [] answer = ProjectionIgnore -> errorIgnore
      [] answer = ProjectionFallthrough -> errorFallthrough
      [] OTHER -> errorFail

\* the errors of the projector
DBConnFailed == "db: acquire connection failed"
ErrAcquireFailed == "storage: acquire of the projection failed"
ErrHandlerFailed == "handler: failed"
ErrRetryCeiling == "seriously 32767 retries is enough!"

\* the event names with a handler, and the handler: the state of the
\* projection is the list of the `no` it has handled
Handlers == {"Deposited"}
Handler(state, row) == Append(state, row.no)

\* the messages of the projected stream: number i, of event name `name`
EventNames == {"Deposited", "Opened"}
ProjectedMessage(i, name) ==
    [uuid |-> i, payload |-> name, metadata |-> AggregateMetadata(i), createdAt |-> 0]

\* *driverSQL.ProjectionNotification: nil, or the `no` announced
NoNotification == [isNil |-> TRUE, no |-> 0]
Notification(n) == [isNil |-> FALSE, no |-> n]

\* A caller that has no call on the projector.  Of a call: Run or
\* RunAndListen, whether its context was cancelled when it was made, whether
\* setupProjection acquired a connection and queried the table, whether the
\* listener was invoked; of the processNotification in progress or last
\* returned: its notification, the loop counter i, the number of fold
\* invocations and of consultations of the callback, the notifications
\* handed to the fold, the persisted projection when it began, whether it
\* has returned and what; of the fold in progress or last returned: the
\* persisted projection when it began, its position, state and cursor, the
\* `no` it read and those it invoked a handler for, its error and whether it
\* found the notification stale; the last answer of the callback; what
\* the call returns; and, until the next step of the call, whether the
\* INSERT of createProjection met a row of the name.
IdleRun ==
    [pc |-> "idle", kind |-> "", cancelled |-> FALSE, conn |-> FALSE, checked |-> FALSE,
     listened |-> FALSE, notification |-> NoNotification, i |-> 0, folds |-> 0,
     consulted |-> 0, given |-> {}, before |-> NoProgress,
     returned |-> FALSE, pres |-> Nil,
     foldBefore |-> NoProgress, position |-> 0, state |-> <<>>,
     cursor |-> <<>>, read |-> <<>>, invoked |-> <<>>, err |-> Nil, stale |-> FALSE,
     answer |-> "", res |-> Nil, conflict |-> FALSE]

\* Run is called (line 103)
Run(p, cancelled) ==
    /\ Idle(p)
    /\ nRuns < MaxRuns
    /\ nRuns' = nRuns + 1
    /\ pr' = [pr EXCEPT ![p] = [IdleRun EXCEPT !.pc = "lock", !.kind = "Run",
                                               !.cancelled = cancelled]]
    /\ UNCHANGED <<mutex, projections, handlerLog, nNotifications, nFailures>>
    /\ UNCHANGED restVars
    /\ UNCHANGED <<nameIn, nameOut, db, cr, hs, created, nCreates, preparedInsertPlaceholder,
                   ap, nAppends, nReturned, ld>>

\* RunAndListen is called (line 122)
RunAndListen(p, cancelled) ==
    /\ Idle(p)
    /\ nRuns < MaxRuns
    /\ nRuns' = nRuns + 1
    /\ pr' = [pr EXCEPT ![p] = [IdleRun EXCEPT !.pc = "lock", !.kind = "RunAndListen",
                                               !.cancelled = cancelled]]
    /\ UNCHANGED <<mutex, projections, handlerLog, nNotifications, nFailures>>
    /\ UNCHANGED restVars
    /\ UNCHANGED <<nameIn, nameOut, db, cr, hs, created, nCreates, preparedInsertPlaceholder,
                   ap, nAppends, nReturned, ld>>

\* (faulty variant) the lock is taken whether or not it is held
LockNotExclusive(p) ==
    /\ pr[p].pc = "lock"
    /\ mutex' = p
    /\ pr' = [pr EXCEPT ![p].pc = "ctx"]
    /\ UNCHANGED <<projections, handlerLog, nRuns, nNotifications, nFailures>>
    /\ UNCHANGED restVars
    /\ UNCHANGED <<nameIn, nameOut, db, cr, hs, created, nCreates, preparedInsertPlaceholder,
                   ap, nAppends, nReturned, ld>>

\* s.Lock() (lines 104, 123): the caller waits until the mutex is free
Lock(p) ==
    /\ pr[p].pc = "lock"
    /\ mutex = Nil
    /\ mutex' = p
    /\ pr' = [pr EXCEPT ![p].pc = "ctx"]
    /\ UNCHANGED <<projections, handlerLog, nRuns, nNotifications, nFailures>>
    /\ UNCHANGED restVars
    /\ UNCHANGED <<nameIn, nameOut, db, cr, hs, created, nCreates, preparedInsertPlaceholder,
                   ap, nAppends, nReturned, ld>>

\* s.Lock() (lines 104, 123) of a caller that calls a StreamProjector of
\* its own: its mutex is held by nobody else
LockOwnProjector(p) ==
    /\ pr[p].pc = "lock"
    /\ pr' = [pr EXCEPT ![p].pc = "ctx"]
    /\ UNCHANGED <<mutex, projections, handlerLog, nRuns, nNotifications, nFailures>>
    /\ UNCHANGED restVars
    /\ UNCHANGED <<nameIn, nameOut, db, cr, hs, created, nCreates, preparedInsertPlaceholder,
                   ap, nAppends, nReturned, ld>>

\* (faulty variant) a cancelled context is not looked at
CheckContextIgnored(p) ==
    /\ pr[p].pc = "ctx"
    /\ pr' = [pr EXCEPT ![p].pc = "setup"]
    /\ UNCHANGED <<mutex, projections, handlerLog, nRuns, nNotifications, nFailures>>
    /\ UNCHANGED restVars
    /\ UNCHANGED <<nameIn, nameOut, db, cr, hs, created, nCreates, preparedInsertPlaceholder,
                   ap, nAppends, nReturned, ld>>

\* the select on ctx.Done() (lines 108-112, 127-131)
CheckContext(p) ==
    /\ pr[p].pc = "ctx"
    /\ pr' = [pr EXCEPT ![p] = IF @.cancelled THEN [@ EXCEPT !.pc = "unlock", !.res = Nil]
                               ELSE [@ EXCEPT !.pc = "setup"]]
    /\ UNCHANGED <<mutex, projections, handlerLog, nRuns, nNotifications, nFailures>>
    /\ UNCHANGED restVars
    /\ UNCHANGED <<nameIn, nameOut, db, cr, hs, created, nCreates, preparedInsertPlaceholder,
                   ap, nAppends, nReturned, ld>>

\* setupProjection has returned nil: Run goes on to processNotification(ctx,
\* nil) (line 118), RunAndListen to listener.Listen (line 137)
AfterSetup(call, rows) ==
    IF call.kind = "Run"
    THEN [call EXCEPT !.pc = "loop", !.notification = NoNotification, !.i = 0,
                      !.before = PersistedIn(rows)]
    ELSE [call EXCEPT !.pc = "listen", !.listened = TRUE]

\* setupProjection: internalSQL.AcquireConn (lines 175-178)
SetupAcquireConn(p, ok) ==
    /\ pr[p].pc = "setup"
    /\ pr' = [pr EXCEPT ![p] = IF ok THEN [@ EXCEPT !.pc = "exists", !.conn = TRUE]
                               ELSE [@ EXCEPT !.pc = "unlock", !.res = DBConnFailed]]
    /\ UNCHANGED <<mutex, projections, handlerLog, nRuns, nNotifications, nFailures>>
    /\ UNCHANGED restVars
    /\ UNCHANGED <<nameIn, nameOut, db, cr, hs, created, nCreates, preparedInsertPlaceholder,
                   ap, nAppends, nReturned, ld>>

\* setupProjection: projectionExists (lines 185-187)
SetupProjectionExists(p, queryOk) ==
    /\ pr[p].pc = "exists"
    /\ pr' = [pr EXCEPT ![p] =
                IF projectionExists(projections, ProjectionName, queryOk)
                THEN AfterSetup([@ EXCEPT !.checked = TRUE], projections)
                ELSE [@ EXCEPT !.pc = "create", !.checked = TRUE]]
    /\ UNCHANGED <<mutex, projections, handlerLog, nRuns, nNotifications, nFailures>>
    /\ UNCHANGED restVars
    /\ UNCHANGED <<nameIn, nameOut, db, cr, hs, created, nCreates, preparedInsertPlaceholder,
                   ap, nAppends, nReturned, ld>>

\* setupProjection: createProjection (lines 188-192, 236-251)
SetupCreateProjection(p, ok) ==
    /\ pr[p].pc = "create"
    /\ LET rows == IF ok THEN InsertOnConflictDoNothing(projections, ProjectionName)
                   ELSE projections
       IN  /\ projections' = rows
           /\ pr' = [pr EXCEPT ![p] =
                        IF ok
                        THEN AfterSetup([@ EXCEPT !.conflict =
                                            HasProjection(projections, ProjectionName)],
                                        rows)
                        ELSE [@ EXCEPT !.pc = "unlock", !.res = DBStatementFailed]]
    /\ UNCHANGED <<mutex, handlerLog, nRuns, nNotifications, nFailures>>
    /\ UNCHANGED restVars
    /\ UNCHANGED <<nameIn, nameOut, db, cr, hs, created, nCreates, preparedInsertPlaceholder,
                   ap, nAppends, nReturned, ld>>

\* the listener announces the `no` n: it calls processNotification with the
\* notification (line 137)
ListenNotify(p, n, limit) ==
    /\ pr[p].pc = "listen"
    /\ nNotifications < limit
    /\ nNotifications' = nNotifications + 1
    /\ pr' = [pr EXCEPT ![p] =
                [@ EXCEPT !.pc = "loop", !.notification = Notification(n), !.i = 0,
                          !.folds = 0, !.consulted = 0, !.given = {}, !.before = Persisted,
                          !.returned = FALSE, !.pres = Nil, !.foldBefore = NoProgress,
                          !.position = 0, !.state = <<>>, !.cursor = <<>>, !.read = <<>>,
                          !.invoked = <<>>, !.err = Nil, !.stale = FALSE, !.answer = "",
                          !.conflict = FALSE]]
    /\ UNCHANGED <<mutex, projections, handlerLog, nRuns, nFailures>>
    /\ UNCHANGED restVars
    /\ UNCHANGED <<nameIn, nameOut, db, cr, hs, created, nCreates, preparedInsertPlaceholder,
                   ap, nAppends, nReturned, ld>>

\* the context of the listener is done: Listen returns nil
ListenStop(p) ==
    /\ pr[p].pc = "listen"
    /\ pr' = [pr EXCEPT ![p] = [@ EXCEPT !.pc = "unlock", !.res = Nil, !.conflict = FALSE]]
    /\ UNCHANGED <<mutex, projections, handlerLog, nRuns, nNotifications, nFailures>>
    /\ UNCHANGED restVars
    /\ UNCHANGED <<nameIn, nameOut, db, cr, hs, created, nCreates, preparedInsertPlaceholder,
                   ap, nAppends, nReturned, ld>>

\* processNotification returns res: Run returns it (line 118); the listener
\* goes on listening after nil and returns an error of its callback
AfterProcess(call, res) ==
    IF call.kind = "Run" \/ res # Nil
    THEN [call EXCEPT !.pc = "unlock", !.returned = TRUE, !.pres = res, !.res = res]
    ELSE [call EXCEPT !.pc = "listen", !.returned = TRUE, !.pres = res]

\* ------------------------------------------------------------------------
\* NotificationProjector.Execute, the fold
\* ------------------------------------------------------------------------
\* the stream loader: the messages of FromStream from fromNumber on
StreamLoader(d, fromNumber) ==
    DBQuery(d, LoadQuery(tableName(FromStream).name, fromNumber, NoCount, NilMatcher))

\* (faulty variant) a notification is never found stale
IsStaleNever(notification, position) == FALSE

\* the notification announces nothing beyond the position
IsStale(notification, position) == ~notification.isNil /\ notification.no <= position

\* s.executor.Execute is invoked (lines 144-145): the projection row is
\* acquired, a stale notification ends the fold, otherwise the cursor is
\* opened at position + 1.  ok: the acquire succeeds.
ExecuteAcquire(p, ok, limit) ==
    /\ pr[p].pc = "loop"
    /\ pr[p].i < MaxInt16
    /\ LET acq == AcquireProjection(projections, ProjectionName)
           stream == StreamLoader(db, acq.position + 1)
           call == [pr[p] EXCEPT !.folds = @ + 1, !.given = @ \cup {pr[p].notification},
                                 !.foldBefore = Persisted, !.position = acq.position,
                                 !.state = acq.state, !.cursor = <<>>, !.read = <<>>,
                                 !.invoked = <<>>, !.err = Nil, !.stale = FALSE,
                                 !.conflict = FALSE]
           stale == IsStale(call.notification, acq.position)
           err == IF ~ok \/ ~acq.found THEN ErrAcquireFailed
                  ELSE IF stale THEN Nil
                  ELSE stream.err
       IN  /\ err # Nil => nFailures < limit
           /\ nFailures' = IF err # Nil THEN nFailures + 1 ELSE nFailures
           /\ pr' = [pr EXCEPT ![p] =
                        IF err # Nil THEN [call EXCEPT !.pc = "resolve", !.err = err]
                        ELSE IF stale THEN AfterProcess([call EXCEPT !.stale = TRUE], Nil)
                        ELSE [call EXCEPT !.pc = "cursor", !.cursor = stream.rows]]
    /\ UNCHANGED <<mutex, projections, handlerLog, nRuns, nNotifications>>
    /\ UNCHANGED restVars
    /\ UNCHANGED <<nameIn, nameOut, db, cr, hs, created, nCreates, preparedInsertPlaceholder,
                   ap, nAppends, nReturned, ld>>

\* (faulty variant) the rollback keeps what the fold has done so far
RollbackKeepsProgress(rows, position, state) ==
    PersistProjection(rows, ProjectionName, position, state)

\* the transaction of a failed fold is rolled back: nothing of the position
\* and the state it has computed is persisted
Rollback(rows, position, state) == rows

\* the next message of the cursor: without a handler it only advances the
\* position; with one the handler is invoked, and its failure rolls the
\* transaction back and ends the fold.  handlerOk: the handler succeeds.
ExecuteNext(p, handlerOk, limit) ==
    /\ pr[p].pc = "cursor"
    /\ pr[p].cursor # <<>>
    /\ LET call == pr[p]
           row == Head(call.cursor)
           handled == row.event_name \in Handlers
       IN  /\ handlerOk \/ (handled /\ nFailures < limit)
           /\ nFailures' = IF handlerOk THEN nFailures ELSE nFailures + 1
           /\ handlerLog' = IF handled THEN Append(handlerLog, row.no) ELSE handlerLog
           /\ pr' = [pr EXCEPT ![p] =
                        IF ~handled
                        THEN [call EXCEPT !.cursor = Tail(@), !.read = Append(@, row.no),
                                          !.position = row.no]
                        ELSE IF handlerOk
                        THEN [call EXCEPT !.cursor = Tail(@), !.read = Append(@, row.no),
                                          !.invoked = Append(@, row.no),
                                          !.state = Handler(@, row),
                                          !.position = row.no]
                        ELSE [call EXCEPT !.pc = "resolve", !.read = Append(@, row.no),
                                          !.invoked = Append(@, row.no),
                                          !.err = ErrHandlerFailed]]
           /\ projections' = IF handled /\ ~handlerOk
                             THEN Rollback(projections, call.position, call.state)
                             ELSE projections
    /\ UNCHANGED <<mutex, nRuns, nNotifications>>
    /\ UNCHANGED restVars
    /\ UNCHANGED <<nameIn, nameOut, db, cr, hs, created, nCreates, preparedInsertPlaceholder,
                   ap, nAppends, nReturned, ld>>

\* the cursor is drained: position and state are persisted and the
\* transaction is committed; Execute returns nil and so does
\* processNotification (lines 148-150)
ExecuteCommit(p) ==
    /\ pr[p].pc = "cursor"
    /\ pr[p].cursor = <<>>
    /\ projections' = PersistProjection(projections, ProjectionName, pr[p].position,
                                        pr[p].state)
    /\ pr' = [pr EXCEPT ![p] = AfterProcess(@, Nil)]
    /\ UNCHANGED <<mutex, handlerLog, nRuns, nNotifications, nFailures>>
    /\ UNCHANGED restVars
    /\ UNCHANGED <<nameIn, nameOut, db, cr, hs, created, nCreates, preparedInsertPlaceholder,
                   ap, nAppends, nReturned, ld>>

\* (faulty variant) Ignore returns the error as Fail does
SwitchErrorActionIgnoreFails(action) ==
    CASE action = errorRetry -> "continue"
      [] OTHER -> "return err"

\* (faulty variant) the case of Fail is missing
SwitchErrorActionNoFailCase(action) ==
    CASE action = errorRetry -> "continue"
      [] action = errorIgnore -> "return nil"
      [] action = errorFallthrough -> "return err"
      [] OTHER -> "continue"

\* (faulty variant) Retry returns the error
SwitchErrorActionNoRetry(action) ==
    CASE action = errorIgnore -> "return nil"
      [] OTHER -> "return err"

\* the switch of processNotification (lines 154-164): what the loop does
\* on an action; an action without a case leaves the switch and the loop
\* goes on
SwitchErrorAction(action) ==
    CASE action = errorRetry -> "continue"
      [] action = errorIgnore -> "return nil"
      [] action \in {errorFail, errorFallthrough} -> "return err"
      [] OTHER -> "continue"

\* Execute has returned an error: the callback is consulted and the switch
\* taken (lines 152-164)
ResolveError(p, answer) ==
    /\ pr[p].pc = "resolve"
    /\ LET call == [pr[p] EXCEPT !.consulted = @ + 1, !.answer = answer]
           todo == SwitchErrorAction(resolveErrorAction(answer))
       IN  pr' = [pr EXCEPT ![p] =
                    CASE todo = "continue" -> [call EXCEPT !.pc = "loop", !.i = @ + 1]
                      [] todo = "return nil" -> AfterProcess(call, Nil)
                      [] todo = "return err" -> AfterProcess(call, call.err)]
    /\ UNCHANGED <<mutex, projections, handlerLog, nRuns, nNotifications, nFailures>>
    /\ UNCHANGED restVars
    /\ UNCHANGED <<nameIn, nameOut, db, cr, hs, created, nCreates, preparedInsertPlaceholder,
                   ap, nAppends, nReturned, ld>>

\* the loop has run MaxInt16 times (lines 144, 167-170)
RetryCeiling(p) ==
    /\ pr[p].pc = "loop"
    /\ pr[p].i >= MaxInt16
    /\ pr' = [pr EXCEPT ![p] = AfterProcess(@, ErrRetryCeiling)]
    /\ UNCHANGED <<mutex, projections, handlerLog, nRuns, nNotifications, nFailures>>
    /\ UNCHANGED restVars
    /\ UNCHANGED <<nameIn, nameOut, db, cr, hs, created, nCreates, preparedInsertPlaceholder,
                   ap, nAppends, nReturned, ld>>

\* the call has returned: of its record stay what it was, what it did
\* before processNotification, and what it returned
Returned(call) ==
    [IdleRun EXCEPT !.pc = "done", !.kind = call.kind, !.cancelled = call.cancelled,
                    !.conn = call.conn, !.checked = call.checked,
                    !.listened = call.listened, !.res = call.res]

\* the deferred s.Unlock() (lines 105, 124), on every return
Unlock(p) ==
    /\ pr[p].pc = "unlock"
    /\ mutex' = Nil
    /\ pr' = [pr EXCEPT ![p] = Returned(@)]
    /\ UNCHANGED <<projections, handlerLog, nRuns, nNotifications, nFailures>>
    /\ UNCHANGED restVars
    /\ UNCHANGED <<nameIn, nameOut, db, cr, hs, created, nCreates, preparedInsertPlaceholder,
                   ap, nAppends, nReturned, ld>>

\* Run or RunAndListen has returned to its caller
RunReturn(p) ==
    /\ pr[p].pc = "done"
    /\ pr' = [pr EXCEPT ![p] = IdleRun]
    /\ UNCHANGED <<mutex, projections, handlerLog, nRuns, nNotifications, nFailures>>
    /\ UNCHANGED restVars
    /\ UNCHANGED <<nameIn, nameOut, db, cr, hs, created, nCreates, preparedInsertPlaceholder,
                   ap, nAppends, nReturned, ld>>

\* the projector after NewStreamProjector over a projection table without
\* rows
InitProjector ==
    /\ mutex = Nil
    /\ projections = <<>>
    /\ pr = [p \in Procs |-> IdleRun]
    /\ handlerLog = <<>>
    /\ nRuns = 0
    /\ nNotifications = 0
    /\ nFailures = 0

\* ------------------------------------------------------------------------
\* ReadEventStream
\* ------------------------------------------------------------------------
\* An EventStream is a cursor over the rows of a result; it starts before
\* the first row.  Of a row: the message, its number, and whether Message
\* fails on it.  failAt = k > 0: preparing row k fails, so Next returns
\* false there and Err is non-nil from then on; failAt = 0: Next returns
\* false after the last row and Err stays nil.
ErrMessageFailed == "stream: message failed"
ErrStreamFailed == "stream: iteration failed"

StreamRows == [msg : {"x", "y"}, no : 1..2, fails : BOOLEAN]
EventStreams ==
    {s \in [rows : SeqsUpTo(StreamRows, MaxRead), failAt : 0..(MaxRead + 1)] :
        s.failAt <= Len(s.rows) + 1}

\* stream.Next() with the cursor on row `cursor` (0: before the first row)
StreamNext(stream, cursor) ==
    IF stream.failAt = cursor + 1 THEN [ok |-> FALSE, err |-> ErrStreamFailed]
    ELSE IF cursor + 1 > Len(stream.rows) THEN [ok |-> FALSE, err |-> Nil]
    ELSE [ok |-> TRUE, err |-> Nil]

\* stream.Message() with the cursor on row `cursor`
StreamMessage(stream, cursor) ==
    LET row == stream.rows[cursor]
    IN  [msg |-> row.msg, no |-> row.no,
         err |-> IF row.fails THEN ErrMessageFailed ELSE Nil]

\* No call of ReadEventStream.  Of a call: the stream, its cursor and its
\* Err, the two slices the loop appends to, and what the call returns; a
\* nil slice is the sequence without elements.
NoRead ==
    [pc |-> "idle", stream |-> [rows |-> <<>>, failAt |-> 0], cursor |-> 0, err |-> Nil,
     messages |-> <<>>, messageNumbers |-> <<>>,
     res |-> [messages |-> <<>>, messageNumbers |-> <<>>, err |-> Nil]]

\* ReadEventStream is called with stream (line 56)
ReadCall(stream) == [NoRead EXCEPT !.pc = "loop", !.stream = stream]

\* one round of `for stream.Next()` (lines 59-67): Next, Message, the
\* return of Message's error with nil slices, the two appends
ReadNext ==
    /\ rd.pc = "loop"
    /\ LET next == StreamNext(rd.stream, rd.cursor)
           m == StreamMessage(rd.stream, rd.cursor + 1)
       IN  rd' = IF ~next.ok THEN [rd EXCEPT !.pc = "after", !.err = next.err]
                 ELSE IF m.err # Nil
                 THEN [rd EXCEPT !.pc = "done", !.cursor = @ + 1,
                                 !.res = [messages |-> <<>>, messageNumbers |-> <<>>,
                                          err |-> m.err]]
                 ELSE [rd EXCEPT !.cursor = @ + 1, !.messages = Append(@, m.msg),
                                 !.messageNumbers = Append(@, m.no)]
    /\ UNCHANGED account
    /\ UNCHANGED projectorVars
    /\ UNCHANGED <<nameIn, nameOut, db, cr, hs, created, nCreates, preparedInsertPlaceholder,
                   ap, nAppends, nReturned, ld>>

\* (faulty variant) Err is not consulted after the loop
AfterLoopErrIgnored(call) ==
    [call EXCEPT !.pc = "done",
                 !.res = [messages |-> call.messages, messageNumbers |-> call.messageNumbers,
                          err |-> Nil]]

\* after the loop (lines 69-73): the error of stream.Err() with nil
\* slices, or the slices with a nil error
AfterLoop(call) ==
    IF call.err # Nil
    THEN [call EXCEPT !.pc = "done",
                      !.res = [messages |-> <<>>, messageNumbers |-> <<>>, err |-> call.err]]
    ELSE [call EXCEPT !.pc = "done",
                      !.res = [messages |-> call.messages,
                               messageNumbers |-> call.messageNumbers, err |-> Nil]]

ReadReturn ==
    /\ rd.pc = "after"
    /\ rd' = AfterLoop(rd)
    /\ UNCHANGED account
    /\ UNCHANGED projectorVars
    /\ UNCHANGED <<nameIn, nameOut, db, cr, hs, created, nCreates, preparedInsertPlaceholder,
                   ap, nAppends, nReturned, ld>>

\* ------------------------------------------------------------------------
\* The example aggregate: BankAccount
\* ------------------------------------------------------------------------
\* The balance is a Go uint: its arithmetic is modulo a power of two.  The
\* model keeps that arithmetic at the small width UintBits.
UintMod == 2 ^ UintBits
MaxUint == UintMod - 1

ErrInsufficientMoney == "insufficient money"

\* the payloads of the changes
AccountOpened == [type |-> "AccountOpened", amount |-> 0]
AccountCredited(amount) == [type |-> "AccountCredited", amount |-> amount]
AccountDebited(amount) == [type |-> "AccountDebited", amount |-> amount]

\* No account.  Of an account: its balance, the version and the number of
\* recorded changes of its BaseRoot, and, for the properties, every
\* Deposit and Withdraw call made on it with its amount and its result,
\* and the balance and the version before the last of them.
NoAccount ==
    [opened |-> FALSE, balance |-> 0, version |-> 0, calls |-> <<>>,
     before |-> [balance |-> 0, version |-> 0]]

\* Apply (lines 80-89): `+=` and `-=` on a uint
Apply(b, event) ==
    CASE event.type = "AccountCredited" ->
            [b EXCEPT !.balance = (@ + event.amount) % UintMod]
      [] event.type = "AccountDebited" ->
            [b EXCEPT !.balance = (@ + UintMod - event.amount) % UintMod]
      [] OTHER -> b

\* aggregate.RecordChange: the change gets the next version, is recorded
\* and applied
RecordChange(b, event) == Apply([b EXCEPT !.version = @ + 1], event)

Called(b, op, amount, res) ==
    [calls |-> Append(b.calls, [op |-> op, amount |-> amount, res |-> res]),
     before |-> [balance |-> b.balance, version |-> b.version]]

\* OpenBankAccount (lines 62-72)
OpenBankAccount ==
    /\ ~account.opened
    /\ account' = RecordChange([NoAccount EXCEPT !.opened = TRUE], AccountOpened)
    /\ UNCHANGED rd
    /\ UNCHANGED projectorVars
    /\ UNCHANGED <<nameIn, nameOut, db, cr, hs, created, nCreates, preparedInsertPlaceholder,
                   ap, nAppends, nReturned, ld>>

\* Deposit (lines 92-98)
Deposit(amount) ==
    /\ account.opened
    /\ Len(account.calls) < MaxCalls
    /\ LET c == Called(account, "Deposit", amount, Nil)
           b == IF amount = 0 THEN account ELSE RecordChange(account, AccountCredited(amount))
       IN  account' = [b EXCEPT !.calls = c.calls, !.before = c.before]
    /\ UNCHANGED rd
    /\ UNCHANGED projectorVars
    /\ UNCHANGED <<nameIn, nameOut, db, cr, hs, created, nCreates, preparedInsertPlaceholder,
                   ap, nAppends, nReturned, ld>>

\* Withdraw (lines 101-107)
Withdraw(amount) ==
    /\ account.opened
    /\ Len(account.calls) < MaxCalls
    /\ LET refused == amount > account.balance
           c == Called(account, "Withdraw", amount,
                       IF refused THEN ErrInsufficientMoney ELSE Nil)
           b == IF refused THEN account ELSE RecordChange(account, AccountDebited(amount))
       IN  account' = [b EXCEPT !.calls = c.calls, !.before = c.before]
    /\ UNCHANGED rd
    /\ UNCHANGED projectorVars
    /\ UNCHANGED <<nameIn, nameOut, db, cr, hs, created, nCreates, preparedInsertPlaceholder,
                   ap, nAppends, nReturned, ld>>

\* no ReadEventStream call and no account yet
InitRest ==
    /\ rd = NoRead
    /\ account = NoAccount

\* ------------------------------------------------------------------------
\* Specifications
\* ------------------------------------------------------------------------
\* the store after NewEventStore, with no stream created
InitStore ==
    /\ db = EmptyDB
    /\ cr = [p \in Procs |-> IdleCreate]
    /\ hs = [p \in Procs |-> IdleHasStream]
    /\ created = {}
    /\ nCreates = 0
    /\ preparedInsertPlaceholder = <<>>
    /\ ap = [p \in Procs |-> IdleAppend]
    /\ nAppends = 0
    /\ nReturned = 0
    /\ ld = NoLoad
    /\ InitProjector
    /\ InitRest

Init ==
    /\ nameIn = <<>>
    /\ nameOut = NotCalled
    /\ InitStore

\* GenerateTableName applied to every stream name of AllNames
InitName ==
    /\ nameIn \in AllNames
    /\ nameOut = NotCalled
    /\ InitStore

NextName == CallGenerateTableName

SpecName == InitName /\ [][NextName]_vars

NextCreate ==
    \/ \E p \in Procs, s \in StreamNames : CreateCall(p, s)
    \/ \E p \in Procs, queryOk \in BOOLEAN : CreateTableExists(p, queryOk)
    \/ \E p \in Procs, ok \in BOOLEAN : CreateBeginTx(p, ok)
    \/ \E p \in Procs, envOk \in BOOLEAN, rollbackOk \in BOOLEAN :
          CreateExecQuery(p, envOk, rollbackOk)
    \/ \E p \in Procs, ok \in BOOLEAN : CreateCommit(p, ok)
    \/ \E p \in Procs : CreateReturn(p)
    \/ \E p \in Procs, s \in StreamNames, queryOk \in BOOLEAN : HasStream(p, s, queryOk)
    \/ \E p \in Procs : HasStreamReturn(p)
    \/ \E p \in Procs, s \in StreamNames, b \in {<<>>, <<Message(1, 1, "Deposited")>>} :
          AppendToCall(p, s, b, MaxAppendsWhileCreating)
    \/ \E p \in Procs : AppendToExec(p)
    \/ \E p \in Procs : AppendToReturn(p)

SpecCreate == Init /\ [][NextCreate]_vars

\* The store with the main stream created: the state after Create(MainStream)
\* has run its three statements and returned nil.
MainTable == tableName(MainStream).name

InitAppend ==
    /\ nameIn = <<>>
    /\ nameOut = NotCalled
    /\ db = [EmptyDB EXCEPT ![MainTable] =
                [NoRelation EXCEPT !.table = TRUE, !.uidx = TRUE, !.idx = TRUE]]
    /\ cr = [p \in Procs |-> IdleCreate]
    /\ hs = [p \in Procs |-> IdleHasStream]
    /\ created = {MainTable}
    /\ nCreates = 1
    /\ preparedInsertPlaceholder = <<>>
    /\ ap = [p \in Procs |-> IdleAppend]
    /\ nAppends = 0
    /\ nReturned = 0
    /\ ld = NoLoad
    /\ InitProjector
    /\ InitRest

NextAppend ==
    \/ \E p \in Procs, b \in Batches : AppendToCall(p, MainStream, b, MaxAppends)
    \/ \E p \in Procs : AppendToExec(p)
    \/ \E p \in Procs : AppendToReturn(p)

SpecAppend == InitAppend /\ [][NextAppend]_vars

\* AppendTo on the main stream with the accesses to the placeholder cache
\* taken one by one: two callers, batches of no, one and two messages.
CacheBatches ==
    {<<>>, <<Message(1, 1, "Deposited")>>, <<Message(2, 1, "Deposited")>>,
     <<Message(1, 1, "Deposited"), Message(1, 2, "Deposited")>>}

NextCache ==
    \/ \E p \in Procs, b \in CacheBatches : AppendToPrepare(p, MainStream, b, MaxAppends)
    \/ \E p \in Procs, found \in BOOLEAN, torn \in TornTemplates, fatal \in BOOLEAN :
          CacheLookup(p, found, torn, fatal)
    \/ \E p \in Procs, lost \in BOOLEAN, fatal \in BOOLEAN : CacheStore(p, lost, fatal)
    \/ \E p \in Procs, torn \in TornTemplates, fatal \in BOOLEAN : CacheReread(p, torn, fatal)
    \/ \E p \in Procs : NoFatal /\ AppendToExec(p)
    \/ \E p \in Procs : NoFatal /\ AppendToReturn(p)

SpecCache == InitAppend /\ [][NextCache]_vars

\* Load against the main stream after messages with and without a region
\* have been appended to it, one per call, each with a uuid and a version of
\* its own: one caller appends, the other loads, also while an append is in
\* flight.  Load changes nothing in the store, so a behaviour ends with it.
Writer == "p1"
Reader == "p2"

NextLoad ==
    \/ /\ ld.calls = 0
       /\ \/ \E region \in {0} \cup Regions :
                AppendToCall(Writer, MainStream, <<RegionMessage(nAppends + 1, region)>>,
                             MaxLoadRows)
          \/ AppendToExec(Writer)
          \/ AppendToReturn(Writer)
    \/ /\ ld.calls = 0
       /\ \E fromNumber \in 0..(MaxLoadRows + 1), count \in {NoCount, Count(1)},
             matcher \in Matchers :
             Load(Reader, MainStream, fromNumber, count, matcher)
    \/ /\ ld.calls = 0
       /\ \E s \in {<<>>, <<"t">>} : Load(Reader, s, 1, NoCount, NilMatcher)

SpecLoad == InitAppend /\ [][NextLoad]_vars

\* The projector over the main stream.  The stream exists and an INSERT
\* that failed has taken the first value of its sequence, so the first
\* message is stored with `no` 2.  One caller appends messages with and
\* without a handler, one per call, the other calls Run and RunAndListen;
\* folds fail MaxFailures times at most, so the loop of processNotification
\* stays far below its bound.
InitProject ==
    /\ nameIn = <<>>
    /\ nameOut = NotCalled
    /\ db = [EmptyDB EXCEPT ![MainTable] =
                [NoRelation EXCEPT !.table = TRUE, !.uidx = TRUE, !.idx = TRUE,
                                   !.seq = 1, !.lost = 1]]
    /\ cr = [p \in Procs |-> IdleCreate]
    /\ hs = [p \in Procs |-> IdleHasStream]
    /\ created = {MainTable}
    /\ nCreates = 1
    /\ preparedInsertPlaceholder = <<>>
    /\ ap = [p \in Procs |-> IdleAppend]
    /\ nAppends = 0
    /\ nReturned = 0
    /\ ld = NoLoad
    /\ InitProjector
    /\ InitRest

\* the steps of the calls of the callers on the StreamProjector
ProjectorNext(callers) ==
    \/ \E p \in callers, cancelled \in BOOLEAN : Run(p, cancelled)
    \/ \E p \in callers, cancelled \in BOOLEAN : RunAndListen(p, cancelled)
    \/ \E p \in callers : Lock(p)
    \/ \E p \in callers : CheckContext(p)
    \/ \E p \in callers, ok \in BOOLEAN : SetupAcquireConn(p, ok)
    \/ \E p \in callers, queryOk \in BOOLEAN : SetupProjectionExists(p, queryOk)
    \/ \E p \in callers, ok \in BOOLEAN : SetupCreateProjection(p, ok)
    \/ \E p \in callers, n \in 1..(MaxProjected + 1) : ListenNotify(p, n, MaxNotifications)
    \/ \E p \in callers : ListenStop(p)
    \/ \E p \in callers, ok \in BOOLEAN : ExecuteAcquire(p, ok, MaxFailures)
    \/ \E p \in callers, handlerOk \in BOOLEAN : ExecuteNext(p, handlerOk, MaxFailures)
    \/ \E p \in callers : ExecuteCommit(p)
    \/ \E p \in callers, answer \in ErrorAnswers : ResolveError(p, answer)
    \/ \E p \in callers : Unlock(p)
    \/ \E p \in callers : RunReturn(p)

NextProject ==
    \/ \E name \in EventNames :
          AppendToCall(Writer, FromStream, <<ProjectedMessage(nAppends + 1, name)>>,
                       MaxProjected)
    \/ AppendToExec(Writer)
    \/ AppendToReturn(Writer)
    \/ ProjectorNext({Reader})

SpecProject == InitProject /\ [][NextProject]_vars

\* Both callers call Run and RunAndListen on the one StreamProjector, over
\* a stream that holds one message with a handler and is not appended to.
OneMessage == <<ProjectedMessage(1, "Deposited")>>

InitLock ==
    /\ nameIn = <<>>
    /\ nameOut = NotCalled
    /\ LET created1 == [EmptyDB EXCEPT ![MainTable] =
                          [NoRelation EXCEPT !.table = TRUE, !.uidx = TRUE, !.idx = TRUE]]
           pv == prepareInsertValues(<<>>, OneMessage, Len(ColumnNames))
           stored == DBInsert(created1, MainTable, ColumnNames, pv.values,
                              PrepareData(OneMessage).data)
       IN  /\ db = stored.db
           /\ preparedInsertPlaceholder = pv.cache
    /\ cr = [p \in Procs |-> IdleCreate]
    /\ hs = [p \in Procs |-> IdleHasStream]
    /\ created = {MainTable}
    /\ nCreates = 1
    /\ ap = [p \in Procs |-> IdleAppend]
    /\ nAppends = 1
    /\ nReturned = 1
    /\ ld = NoLoad
    /\ InitProjector
    /\ InitRest

NextLock == ProjectorNext(Procs)

SpecLock == InitLock /\ [][NextLock]_vars

\* Two projectors for the one projection name, each called by a caller of
\* its own: the calls run setupProjection side by side and stop where
\* setupProjection has returned.
NextSetup ==
    \/ \E p \in Procs, cancelled \in BOOLEAN : Run(p, cancelled)
    \/ \E p \in Procs, cancelled \in BOOLEAN : RunAndListen(p, cancelled)
    \/ \E p \in Procs : LockOwnProjector(p)
    \/ \E p \in Procs : CheckContext(p)
    \/ \E p \in Procs, ok \in BOOLEAN : SetupAcquireConn(p, ok)
    \/ \E p \in Procs, queryOk \in BOOLEAN : SetupProjectionExists(p, queryOk)
    \/ \E p \in Procs, ok \in BOOLEAN : SetupCreateProjection(p, ok)

SpecSetup == InitLock /\ [][NextSetup]_vars

\* ReadEventStream applied to every stream of EventStreams, beside a store
\* and a projector nothing is called on.
InitOthers ==
    /\ nameIn = <<>>
    /\ nameOut = NotCalled
    /\ db = EmptyDB
    /\ cr = [p \in Procs |-> IdleCreate]
    /\ hs = [p \in Procs |-> IdleHasStream]
    /\ created = {}
    /\ nCreates = 0
    /\ preparedInsertPlaceholder = <<>>
    /\ ap = [p \in Procs |-> IdleAppend]
    /\ nAppends = 0
    /\ nReturned = 0
    /\ ld = NoLoad
    /\ InitProjector

InitRead ==
    /\ InitOthers
    /\ rd \in {ReadCall(stream) : stream \in EventStreams}
    /\ account = NoAccount

NextRead == ReadNext \/ ReadReturn

SpecRead == InitRead /\ [][NextRead]_vars

\* The example: an account is opened, then Deposit and Withdraw are called
\* MaxCalls times at most, with the amounts of main, no amount and the
\* largest one.
Amounts == {0, 10, 20, 100, MaxUint}

NextAccount ==
    \/ OpenBankAccount
    \/ \E amount \in Amounts : Deposit(amount)
    \/ \E amount \in Amounts : Withdraw(amount)

SpecAccount == Init /\ [][NextAccount]_vars

\* Run on a projection whose every fold invocation fails, with an error
\* callback that always answers Retry: the loop of processNotification runs
\* to its bound.
NextRetry ==
    \/ Run(Reader, FALSE)
    \/ Lock(Reader)
    \/ CheckContext(Reader)
    \/ SetupAcquireConn(Reader, TRUE)
    \/ SetupProjectionExists(Reader, TRUE)
    \/ SetupCreateProjection(Reader, TRUE)
    \/ ExecuteAcquire(Reader, FALSE, MaxRuns * MaxInt16)
    \/ ResolveError(Reader, ProjectionRetry)
    \/ RetryCeiling(Reader)
    \/ Unlock(Reader)
    \/ RunReturn(Reader)

SpecRetry == InitLock /\ [][NextRetry]_vars

\* ------------------------------------------------------------------------
\* Properties of AppendTo (checked under SpecAppend)
\* ------------------------------------------------------------------------
Triple(meta) == [k \in AggregateKeys |-> JsonGetText(meta, k)]

SharedTriples(b1, b2) ==
    {Triple(b1[i].metadata) : i \in DOMAIN b1} \cap {Triple(b2[j].metadata) : j \in DOMAIN b2}

\* two messages of the batch carry the same uuid or the same triple
SelfCollision(batch) ==
    \E i, j \in DOMAIN batch :
        /\ i < j
        /\ \/ batch[i].uuid = batch[j].uuid
           \/ Triple(batch[i].metadata) = Triple(batch[j].metadata)

\* the call a has nothing against it but the rows the call b stored
OnlyRival(a, b) ==
    /\ \A k \in DOMAIN a.batch : a.batch[k].payload = "Deposited"
    /\ ~SelfCollision(a.batch)
    /\ a.hit \subseteq Range(b.nos)

\* the calls a and b ran concurrently: each began before the other returned
Overlap(a, b) == a.start < b.end /\ b.start < a.end

RowsWithTriple(rel, tr) == {i \in DOMAIN rel.rows : Triple(rel.rows[i].metadata) = tr}

\* the pairs of returned calls C1 is about
Racing(p, q) ==
    /\ p # q
    /\ ap[p].pc = "done" /\ ap[q].pc = "done"
    /\ ap[p].tbl = ap[q].tbl /\ ap[p].tbl \in TableNames
    /\ db[ap[p].tbl].table /\ db[ap[p].tbl].uidx
    /\ SharedTriples(ap[p].batch, ap[q].batch) # {}
    /\ Overlap(ap[p], ap[q])
    /\ OnlyRival(ap[p], ap[q]) /\ OnlyRival(ap[q], ap[p])

StoredUuids(rel) == {rel.rows[i].event_id : i \in DOMAIN rel.rows}

AllRows(d) == [t \in TableNames |-> d[t].rows]

\* C2: an AppendTo whose batch contains a message whose uuid is stored in
\* the stream returns an error, and the step in which it returns leaves the
\* rows of every table as they were.
C2_DuplicateUuidRejected ==
    [][\A p \in Procs :
          ( /\ ap[p].pc # "done" /\ ap'[p].pc = "done"
            /\ ap'[p].tbl \in TableNames
            /\ \E k \in DOMAIN ap'[p].batch :
                  ap'[p].batch[k].uuid \in StoredUuids(db[ap'[p].tbl]) )
          => (ap'[p].res # Nil /\ AllRows(db') = AllRows(db))]_vars

\* a batch of two was rejected for the uuid of its second message, the first
\* message having nothing against it
C2_Witness ==
    \E p \in Procs :
        /\ ap[p].pc = "done" /\ ap[p].sent /\ ap[p].res = DBUniqueViolation
        /\ Len(ap[p].batch) = 2
        /\ ap[p].batch[2].uuid \in StoredUuids(db[ap[p].tbl])
        /\ ap[p].batch[1].uuid \notin StoredUuids(db[ap[p].tbl])
        /\ RowsWithTriple(db[ap[p].tbl], Triple(ap[p].batch[1].metadata)) = {}
        /\ Len(db[ap[p].tbl].rows) = 1

\* C3 (first half): of two calls that returned nil, the second having begun
\* after the first returned, every `no` of the second is greater than every
\* `no` of the first.
C3_Later ==
    \A p, q \in Procs :
        ( /\ ap[p].pc = "done" /\ ap[q].pc = "done"
          /\ ap[p].res = Nil /\ ap[q].res = Nil
          /\ ap[p].tbl = ap[q].tbl
          /\ ap[p].end <= ap[q].start )
        => \A i \in DOMAIN ap[p].nos, j \in DOMAIN ap[q].nos : ap[q].nos[j] > ap[p].nos[i]

\* C3 (second half): the step in which a call returns nil adds one row per
\* message after the rows stored, in the order of the batch, each with a `no`
\* greater than that of every row before it.
C3_Step ==
    \A p \in Procs :
        (ap[p].pc = "exec" /\ ap'[p].pc = "done" /\ ap'[p].res = Nil)
        => LET old == db[ap[p].tbl].rows
               new == db'[ap[p].tbl].rows
               batch == ap[p].batch
           IN  /\ Len(new) = Len(old) + Len(batch)
               /\ SubSeq(new, 1, Len(old)) = old
               /\ \A k \in DOMAIN batch :
                     /\ new[Len(old) + k].event_id = batch[k].uuid
                     /\ new[Len(old) + k].metadata = batch[k].metadata
                     /\ ap'[p].nos[k] = new[Len(old) + k].no
                     /\ \A i \in 1..(Len(old) + k - 1) : new[i].no < new[Len(old) + k].no

Positions(rel) == {rel.rows[i].no : i \in DOMAIN rel.rows}

\* C4 as claimed: the positions of the stored rows are exactly 1..n.
C4_GapFree ==
    \A t \in TableNames : Positions(db[t]) = 1..Len(db[t].rows)

\* C4 as amended: the positions of the stored rows increase in the order the
\* rows were stored and lie in 1..s, s being the last value of the sequence;
\* s - n is the number of sequence values taken by statements that failed,
\* and the positions are exactly 1..n as long as that number is 0.
C4_Positions ==
    \A t \in TableNames :
        LET rel == db[t]
        IN  /\ \A i, j \in DOMAIN rel.rows : i < j => rel.rows[i].no < rel.rows[j].no
            /\ Positions(rel) \subseteq 1..rel.seq
            /\ rel.seq = Len(rel.rows) + rel.lost
            /\ rel.lost = 0 => Positions(rel) = 1..Len(rel.rows)

\* a row was stored after a failed statement had taken sequence values
C4_Witness ==
    \E t \in TableNames :
        /\ db[t].rows # <<>>
        /\ db[t].lost > 0
        /\ db[t].rows[Len(db[t].rows)].no > Len(db[t].rows)

\* C5 as claimed: AppendTo with no message on an existing stream returns nil
\* and sends no statement to the database.
C5_EmptyBatchNoOp ==
    \A p \in Procs :
        ( /\ ap[p].pc = "done"
          /\ ap[p].batch = <<>>
          /\ ap[p].tbl \in TableNames
          /\ db[ap[p].tbl].table )
        => (ap[p].res = Nil /\ ~ap[p].sent)

\* ------------------------------------------------------------------------
\* Properties of Create and HasStream (checked under SpecCreate)
\* ------------------------------------------------------------------------
\* the Create call of p began after a Create of its table had returned nil
LaterCreate(c) == c.pc # "idle" /\ c.tbl \in c.after

\* C7 as claimed: a Create that begins after a Create of the same table has
\* returned nil returns ErrTableAlreadyExists and sends no DDL statement.
C7_AlwaysAlreadyExists ==
    \A p \in Procs :
        (LaterCreate(cr[p]) /\ cr[p].pc = "done")
        => (cr[p].res = ErrTableAlreadyExists /\ cr[p].issued = 0)

\* C7 as amended: no step of such a Create changes the database; when its
\* existence query succeeds it returns ErrTableAlreadyExists and sends no
\* DDL statement; when its existence query fails it returns another error,
\* after at most one DDL statement, which the database rejected.
C7_LaterCreate ==
    [][\A p \in Procs :
          (LaterCreate(cr[p]) /\ cr'[p] # cr[p])
          => /\ db' = db
             /\ cr'[p].pc = "done" =>
                   /\ cr'[p].applied = 0
                   /\ cr'[p].queryOk =>
                         (cr'[p].res = ErrTableAlreadyExists /\ cr'[p].issued = 0)
                   /\ ~cr'[p].queryOk =>
                         /\ cr'[p].res \notin {Nil, ErrTableAlreadyExists}
                         /\ cr'[p].issued <= 1]_vars

\* a stream with a row was created under one name; a later Create under
\* another name of the same table was refused
C7_Witness ==
    \E p \in Procs :
        /\ LaterCreate(cr[p]) /\ cr[p].pc = "done"
        /\ cr[p].stream # MainStream /\ cr[p].tbl = tableName(MainStream).name
        /\ cr[p].res = ErrTableAlreadyExists
        /\ db[cr[p].tbl].rows # <<>>

\* C8 as claimed: when a statement of Create fails after statements of the
\* same call have run, what those did is undone (the table is not there and
\* HasStream is false) and Create returns the error of the failing statement.
C8_AllOrNothing ==
    \A p \in Procs :
        (cr[p].pc = "done" /\ cr[p].stmtErr # Nil /\ cr[p].applied > 0)
        => /\ ~db[cr[p].tbl].table
           /\ ~HasStreamResult(db, cr[p].stream, TRUE)
           /\ cr[p].res \in {cr[p].stmtErr, RollbackFailed \o cr[p].stmtErr}

\* C9: the step of HasStream changes nothing in the database, and its
\* result is true exactly when the stream name is not empty, the existence
\* query succeeded and the table of the name is in the database.
C9_HasStream ==
    [][\A p \in Procs :
          (hs[p].pc = "idle" /\ hs'[p].pc = "done")
          => /\ db' = db
             /\ hs'[p].res =
                   ( /\ hs'[p].stream # <<>>
                     /\ hs'[p].queryOk
                     /\ \E t \in TableNames :
                           t = GenerateTableName(hs'[p].stream).name /\ db[t].table )]_vars

\* of one existing table, one HasStream has answered true and another, whose
\* query failed, false
C9_Witness ==
    \E p, q \in Procs :
        /\ hs[p].pc = "done" /\ hs[q].pc = "done"
        /\ tableName(hs[p].stream).name = tableName(hs[q].stream).name
        /\ hs[p].stream # <<>>
        /\ hs[p].res /\ hs[p].queryOk
        /\ ~hs[q].res /\ ~hs[q].queryOk

\* ------------------------------------------------------------------------
\* Properties of GenerateTableName (checked under SpecName)
\* ------------------------------------------------------------------------
\* what the naming rule keeps of a name over NameChars: "E" in lower case,
\* the letter, the digit and the underscore
RECURSIVE Kept(_)
Kept(s) ==
    IF s = <<>> THEN <<>>
    ELSE LET c == Head(s)
         IN  (CASE c = "E" -> <<"e">>
                [] c \in {"a", "1", "_"} -> <<c>>
                [] OTHER -> <<>>) \o Kept(Tail(s))

Underscores(k) == [i \in 1..k |-> "_"]

\* C10: for a name that is not empty the result is events_ followed by the
\* kept characters without the underscores at their end; the empty name gives
\* ErrEmptyStreamName; and the two names of the specification give
\* events_eventsmaineu and events_userstream.
C10_TableName ==
    /\ nameOut # NotCalled =>
          IF nameIn = <<>>
          THEN nameOut.err = ErrEmptyStreamName
          ELSE /\ nameOut.err = Nil
               /\ Len(nameOut.name) >= 7
               /\ SubSeq(nameOut.name, 1, 7) = <<"e", "v", "e", "n", "t", "s", "_">>
               /\ LET body == SubSeq(nameOut.name, 8, Len(nameOut.name))
                  IN  /\ \E k \in 0..Len(nameIn) : body \o Underscores(k) = Kept(nameIn)
                      /\ body = <<>> \/ body[Len(body)] # "_"
    /\ GenerateTableName(<<"e", "v", "e", "n", "t", "s", "-", "m", "a", "i", "n", "/", "E", "U">>)
          = [name |-> <<"e", "v", "e", "n", "t", "s", "_",
                        "e", "v", "e", "n", "t", "s", "m", "a", "i", "n", "e", "u">>,
             err |-> Nil]
    /\ GenerateTableName(<<"U", "s", "e", "r", "-", "S", "t", "r", "e", "a", "m", "!">>)
          = [name |-> <<"e", "v", "e", "n", "t", "s", "_",
                        "u", "s", "e", "r", "s", "t", "r", "e", "a", "m">>,
             err |-> Nil]

\* a name with an upper-case letter, a character that is not allowed and two
\* underscores at its end, one of them before the character
C10_Witness ==
    /\ nameIn = <<"E", "_", "!", "_">>
    /\ nameOut = [name |-> <<"e", "v", "e", "n", "t", "s", "_", "e">>, err |-> Nil]

\* ------------------------------------------------------------------------
\* Properties of Load (checked under SpecLoad)
\* ------------------------------------------------------------------------
\* the metadata has the field of the constraint and its text stands in the
\* relation of the operator to the value of the constraint
Satisfies(meta, c) ==
    /\ c.field \in DOMAIN meta
    /\ \/ c.operator = "=" /\ meta[c.field] = c.value
       \/ c.operator = "!=" /\ meta[c.field] # c.value
       \/ c.operator = "<" /\ meta[c.field] < c.value
       \/ c.operator = "<=" /\ meta[c.field] <= c.value
       \/ c.operator = ">" /\ meta[c.field] > c.value
       \/ c.operator = ">=" /\ meta[c.field] >= c.value

\* C6: a Load without count that returns no error returns exactly the rows
\* of the stream whose `no` is at least fromNumber and whose metadata
\* satisfies every constraint of the matcher, in ascending `no`; in its
\* statement the value of the i-th constraint is the i-th parameter and the
\* placeholder of the i-th condition is i, and fromNumber is the last
\* parameter, under the placeholder of the condition on `no`.
C6_Load ==
    (ld.calls = 1 /\ ld.err = Nil /\ ld.count.isNil) =>
        LET cs == ld.matcher.constraints
            want == {r \in Range(ld.seen) :
                        /\ r.no >= ld.fromNumber
                        /\ \A i \in DOMAIN cs : Satisfies(r.metadata, cs[i])}
            q == ld.query[1]
            last == Len(cs) + 1
        IN  /\ Range(ld.rows) = want
            /\ Len(ld.rows) = Cardinality(want)
            /\ \A i, j \in DOMAIN ld.rows : i < j => ld.rows[i].no < ld.rows[j].no
            /\ Len(q.params) = last /\ Len(q.conditions) = last
            /\ \A i \in DOMAIN cs :
                  /\ q.conditions[i].placeholder = i
                  /\ q.conditions[i].field = cs[i].field
                  /\ q.conditions[i].operator = cs[i].operator
                  /\ q.params[i] = cs[i].value
            /\ q.conditions[last].placeholder = last
            /\ q.params[last] = ld.fromNumber

\* a Load from the first position with two constraints of different fields
\* and values returned one of the two rows of the stream
C6_Witness ==
    /\ ld.calls = 1 /\ ld.err = Nil /\ ld.count.isNil
    /\ ld.fromNumber = 1
    /\ Len(ld.seen) = 2 /\ Len(ld.rows) = 1
    /\ Len(ld.matcher.constraints) = 2
    /\ ld.matcher.constraints[1].field # ld.matcher.constraints[2].field
    /\ ld.matcher.constraints[1].value # ld.matcher.constraints[2].value

\* ------------------------------------------------------------------------
\* C15 as claimed: when every fold invocation fails and the callback always
\* answers Retry, processNotification gives up with the retry-ceiling error
\* only after at least 2^15 = 32768 fold invocations.
\* ------------------------------------------------------------------------
C15_RetryCeiling ==
    \A p \in Procs :
        (pr[p].returned /\ pr[p].pres = ErrRetryCeiling) => pr[p].folds >= 32768

\* ------------------------------------------------------------------------
\* The claims about the projector
\* ------------------------------------------------------------------------
StrictlyIncreasing(seq) == \A i, j \in DOMAIN seq : i < j => seq[i] < seq[j]

Highest(seq) == CHOOSE n \in Range(seq) : \A m \in Range(seq) : m <= n

\* processNotification of p has returned and p still holds the mutex, so the
\* persisted projection is as it left it
JustProcessed(p) == pr[p].returned /\ pr[p].pc \in {"listen", "unlock"}

\* the last fold invocation of p returned success
FoldSucceeded(p) == JustProcessed(p) /\ pr[p].err = Nil

\* C11: after a fold invocation that returns success having read k >= 1
\* messages the persisted position is the highest `no` it read, whether or
\* not a message had a handler; with k = 0 the persisted position and state
\* are as they were.
C11_Progress ==
    \A p \in Procs :
        FoldSucceeded(p) =>
            IF pr[p].read # <<>> THEN Persisted.position = Highest(pr[p].read)
            ELSE Persisted = pr[p].foldBefore

\* a fold has read two messages, none of them with a handler, and the
\* position has moved to the second
C11_Witness ==
    \E p \in Procs :
        /\ FoldSucceeded(p)
        /\ Len(pr[p].read) = 2
        /\ pr[p].invoked = <<>>
        /\ Persisted.position = pr[p].read[2]
        /\ Persisted.position > pr[p].foldBefore.position

\* the handler of the last message the fold of p read has failed and the
\* callback has answered Fail
FailedOnHandler(p) ==
    /\ JustProcessed(p)
    /\ pr[p].err = ErrHandlerFailed
    /\ pr[p].answer = ProjectionFail

\* C12: when the handler of a message fails and the callback answers Fail,
\* the persisted position and state after processNotification has returned
\* are those from before the fold, also when handlers of earlier messages
\* of the batch had succeeded.
C12_AtomicFailure ==
    \A p \in Procs :
        FailedOnHandler(p) =>
            /\ Persisted = pr[p].foldBefore
            /\ Persisted = pr[p].before
            /\ pr[p].pres = ErrHandlerFailed

\* the handler of the second message failed after the handler of the first
\* had succeeded
C12_Witness ==
    \E p \in Procs :
        /\ FailedOnHandler(p)
        /\ Len(pr[p].invoked) = 2
        /\ Persisted = pr[p].foldBefore

\* the fold of p was invoked with a notification that announces nothing
\* beyond the persisted position
StaleFold(p) ==
    /\ pr[p].folds > 0
    /\ ~pr[p].notification.isNil
    /\ pr[p].notification.no <= pr[p].foldBefore.position

Answered(p, answers) == pr[p].consulted > 0 /\ pr[p].answer \in answers

\* C16: when a fold invocation returns an error and the callback answers
\* Ignore, Fail or Fallthrough, processNotification returns without another
\* fold invocation: nil for Ignore, the error of the fold for Fail and
\* Fallthrough.
C16_ReturnAtOnce ==
    \A p \in Procs :
        Answered(p, {ProjectionIgnore, ProjectionFail, ProjectionFallthrough}) =>
            /\ JustProcessed(p)
            /\ pr[p].err # Nil
            /\ pr[p].folds = pr[p].consulted
            /\ pr[p].pres = IF pr[p].answer = ProjectionIgnore THEN Nil ELSE pr[p].err

\* the error of a handler was swallowed on Ignore and the listener went on
C16_Witness ==
    \E p \in Procs :
        /\ Answered(p, {ProjectionIgnore})
        /\ pr[p].err = ErrHandlerFailed
        /\ pr[p].pres = Nil
        /\ pr[p].pc = "listen"

\* C17: when a fold invocation returns an error and the callback answers
\* none of Retry, Ignore, Fail and Fallthrough, processNotification returns
\* the error of the fold without another fold invocation, as for Fail.
C17_UnknownIsFail ==
    \A p \in Procs :
        Answered(p, {ProjectionOther}) =>
            /\ JustProcessed(p)
            /\ pr[p].err # Nil
            /\ pr[p].pres = pr[p].err
            /\ pr[p].folds = pr[p].consulted
            /\ pr[p].pc = "unlock"

\* an unknown answer after a failed handler
C17_Witness ==
    \E p \in Procs :
        /\ Answered(p, {ProjectionOther})
        /\ pr[p].pres = ErrHandlerFailed
        /\ pr[p].returned

\* C18: with a callback that answers Retry, when the fold fails k times and
\* then succeeds, processNotification returns success after k + 1 fold
\* invocations, all with the same notification, the callback was consulted
\* once per failed invocation, and the persisted position is the highest
\* `no` the successful invocation read; and after Retry processNotification
\* returns only from a fold that succeeded.
C18_RetryThenSuccess ==
    \A p \in Procs :
        /\ FoldSucceeded(p) =>
              /\ pr[p].pres = Nil
              /\ pr[p].folds = pr[p].consulted + 1
              /\ pr[p].i = pr[p].consulted
              /\ pr[p].given = {pr[p].notification}
              /\ pr[p].consulted > 0 => pr[p].answer = ProjectionRetry
              /\ pr[p].read # <<>> => Persisted.position = Highest(pr[p].read)
        /\ (JustProcessed(p) /\ Answered(p, {ProjectionRetry})) => pr[p].err = Nil

\* the fold failed twice, once on a handler, and the third invocation
\* moved the position
C18_Witness ==
    \E p \in Procs :
        /\ FoldSucceeded(p)
        /\ pr[p].consulted = 2
        /\ pr[p].folds = 3
        /\ Len(handlerLog) >= 2
        /\ pr[p].read # <<>>
        /\ Persisted.position > pr[p].before.position

\* p has changed something of its call in this step
StepOf(p) == pr'[p] # pr[p]

\* C19: Run and RunAndListen called with a cancelled context return nil
\* without a connection, without the existence query, without the fold and
\* without the listener, and no step of the call changes the projection
\* table.
C19_Cancelled ==
    \A p \in Procs :
        (pr[p].cancelled /\ pr[p].pc # "idle") =>
            /\ pr[p].pc \in {"lock", "ctx", "unlock", "done"}
            /\ ~pr[p].conn
            /\ ~pr[p].checked
            /\ ~pr[p].listened
            /\ pr[p].folds = 0
            /\ pr[p].res = Nil

C19_TableUnchanged ==
    \A p \in Procs : (pr[p].cancelled /\ StepOf(p)) => projections' = projections

C19_CancelledReturnsNil == [](C19_Cancelled) /\ [][C19_TableUnchanged]_vars

\* both a Run and a RunAndListen with a cancelled context have returned
C19_Witness ==
    \E p, q \in Procs :
        /\ pr[p].cancelled /\ pr[p].pc = "done" /\ pr[p].kind = "Run"
        /\ pr[q].cancelled /\ pr[q].pc = "done" /\ pr[q].kind = "RunAndListen"

\* p is past s.Lock() and has not run the deferred s.Unlock() yet
PastLock(p) ==
    pr[p].pc \in {"ctx", "setup", "exists", "create", "listen", "loop", "cursor", "resolve",
                  "unlock"}

\* C20: at most one call is past the lock at any time, it is the holder of
\* the mutex, every fold invocation happens under it, and the mutex is free
\* whenever no call is past the lock, whatever the calls have returned.
C20_MutualExclusion ==
    /\ \A p, q \in Procs : (PastLock(p) /\ PastLock(q)) => p = q
    /\ \A p \in Procs : PastLock(p) => mutex = p
    /\ (\A p \in Procs : ~PastLock(p)) => mutex = Nil

\* one call waits for the lock while the other is in a fold
C20_Witness ==
    \E p, q \in Procs :
        /\ pr[p].pc = "cursor"
        /\ pr[q].pc = "lock"
        /\ mutex = p

\* ------------------------------------------------------------------------
\* Properties of setupProjection (checked under SpecSetup)
\* ------------------------------------------------------------------------
RowsOf(name) == {i \in DOMAIN projections : projections[i].name = name}
SetupReturnedNil(p) == pr[p].pc \in {"loop", "listen"}

\* C21: whatever the order of the existence checks and inserts of the
\* projectors of one projection name, the projection table never holds two
\* rows of the name, it holds exactly one once a setupProjection has
\* returned nil, and a call whose INSERT met the row of another call
\* returns nil from setupProjection.
C21_IdempotentCreate ==
    /\ Cardinality(RowsOf(ProjectionName)) <= 1
    /\ \A p \in Procs :
          /\ SetupReturnedNil(p) => Cardinality(RowsOf(ProjectionName)) = 1
          /\ pr[p].conflict => SetupReturnedNil(p) /\ pr[p].res = Nil
          /\ pr[p].res # Nil => pr[p].res \in {DBConnFailed, DBStatementFailed}

\* both calls have found no row, both have run the INSERT, and the second
\* INSERT met the row of the first
C21_Witness ==
    /\ \A p \in Procs : SetupReturnedNil(p) /\ pr[p].checked
    /\ \E p \in Procs : pr[p].conflict
    /\ \E p \in Procs : ~pr[p].conflict
    /\ Cardinality(RowsOf(ProjectionName)) = 1

\* ------------------------------------------------------------------------
\* Properties of setupProjection on an existing row (checked under SpecLock)
\* ------------------------------------------------------------------------
InSetup(p) == pr[p].pc \in {"setup", "exists", "create"}

\* C25: no step of setupProjection changes the row of a projection that
\* exists, also when projectionExists has reported it absent and the INSERT
\* is run, and no step of any run lowers the persisted position.
C25_NeverReset ==
    [][/\ Persisted'.position >= Persisted.position
       /\ \A p \in Procs :
             InSetup(p) /\ HasProjection(projections, ProjectionName)
                => projections' = projections]_vars

\* a run on a projection that has progressed: projectionExists reported the
\* row absent, the INSERT has run and met the row
C25_Witness ==
    /\ \E p \in Procs : pr[p].conflict /\ pr[p].checked
    /\ Persisted.position > 0

\* ------------------------------------------------------------------------
\* Properties of a cancelled Run beside a listening call (checked under SpecLock)
\* ------------------------------------------------------------------------
\* the call of p can take no step before another call releases the mutex
WaitsForLock(p) == pr[p].pc = "lock" /\ mutex \in Procs \ {p}

\* C26: a Run called with a cancelled context never has to wait for a
\* RunAndListen call that is listening on the same StreamProjector: it is
\* never at s.Lock() while the listening call holds the mutex.
C26_CancelledDoesNotWait ==
    \A p \in Procs :
        pr[p].kind = "Run" /\ pr[p].cancelled /\ WaitsForLock(p)
            => ~(pr[mutex].kind = "RunAndListen" /\ pr[mutex].pc = "listen")

\* ------------------------------------------------------------------------
\* Properties of the placeholder cache (checked under SpecCache)
\* ------------------------------------------------------------------------
\* C22: in no interleaving of two AppendTo calls on one EventStore is a
\* call at a read or a write of the cache map while another call is at a
\* write of it, and every call goes to its INSERT with the template of its
\* own batch size.
C22_CacheGuarded ==
    /\ \A p \in Procs : WritesCache(p) => ~RacesWithAccess(p)
    /\ \A p \in Procs :
          ap[p].pc = "exec"
             => ap[p].values = BuildPlaceholders(Len(ap[p].batch), Len(ColumnNames))

\* ------------------------------------------------------------------------
\* Properties of ReadEventStream (checked under SpecRead)
\* ------------------------------------------------------------------------
\* the rows the cursor delivers before Next returns false
Delivered(stream) ==
    IF stream.failAt = 0 THEN stream.rows ELSE SubSeq(stream.rows, 1, stream.failAt - 1)
MessageFails(stream) == \E i \in DOMAIN Delivered(stream) : Delivered(stream)[i].fails

\* C23: ReadEventStream returns a nil error only when Message failed on no
\* row and Err was nil after Next returned false, and then it returns the
\* messages and the numbers of all rows in the order of the cursor;
\* otherwise it returns the error of Message, or that of Err, and two nil
\* slices.
C23_AllOrError ==
    rd.pc = "done" =>
        LET rows == Delivered(rd.stream)
        IN  IF MessageFails(rd.stream)
            THEN rd.res = [messages |-> <<>>, messageNumbers |-> <<>>, err |-> ErrMessageFailed]
            ELSE IF rd.stream.failAt # 0
            THEN rd.res = [messages |-> <<>>, messageNumbers |-> <<>>, err |-> ErrStreamFailed]
            ELSE rd.res = [messages |-> [i \in DOMAIN rows |-> rows[i].msg],
                           messageNumbers |-> [i \in DOMAIN rows |-> rows[i].no],
                           err |-> Nil]

\* two rows were read without an error of Message, then Next returned
\* false with an error: the call has returned it and no row
C23_Witness ==
    /\ rd.pc = "done"
    /\ rd.stream.failAt = 3
    /\ Len(rd.messages) = 2
    /\ rd.res.err = ErrStreamFailed
    /\ rd.res.messages = <<>>

\* ------------------------------------------------------------------------
\* Properties of the BankAccount (checked under SpecAccount)
\* ------------------------------------------------------------------------
RECURSIVE SumOf(_, _)
SumOf(calls, op) ==
    IF calls = <<>> THEN 0
    ELSE (IF Head(calls).op = op /\ Head(calls).res = Nil THEN Head(calls).amount ELSE 0)
         + SumOf(Tail(calls), op)

MainCalls ==
    <<[op |-> "Deposit", amount |-> 100, res |-> Nil],
      [op |-> "Withdraw", amount |-> 10, res |-> Nil],
      [op |-> "Withdraw", amount |-> 20, res |-> Nil]>>

\* C24: after every sequence of Deposit and Withdraw calls on an opened
\* account the balance is the sum of the deposits less the sum of the
\* accepted withdrawals; a Withdraw is accepted exactly when its amount is
\* not above the balance, and a refused one returns ErrInsufficientMoney
\* and changes nothing; after Deposit 100, Withdraw 10, Withdraw 20 the
\* balance is 70.
C24_Balance ==
    account.opened =>
        /\ account.balance = SumOf(account.calls, "Deposit") - SumOf(account.calls, "Withdraw")
        /\ account.calls # <<>> =>
              LET last == account.calls[Len(account.calls)]
              IN  last.op = "Withdraw" =>
                    /\ last.res = Nil <=> last.amount <= account.before.balance
                    /\ last.res # Nil =>
                          /\ last.res = ErrInsufficientMoney
                          /\ account.balance = account.before.balance
                          /\ account.version = account.before.version
        /\ account.calls = MainCalls => account.balance = 70
====
